---- MODULE Spec2Model ----
(***************************************************************************)
(* A model of verilog_visualizer.py: the structural extractor              *)
(* (VerilogParser), the level analyzer (calculate_gate_depths) and the     *)
(* three-valued logic engine (LogicSimulator).                             *)
(***************************************************************************)
EXTENDS Naturals, Integers, Sequences, FiniteSets, TLC

(***************************************************************************)
(* LogicValue                                                              *)
(***************************************************************************)
ZERO == "0"
ONE == "1"
X == "X"
LogicValue == {ZERO, ONE, X}

\* Python's `v in list`
In(v, s) == \E i \in 1..Len(s) : s[i] = v

Range(s) == {s[i] : i \in 1..Len(s)}

\* all sequences over S of length lo..hi
SeqsOf(S, lo, hi) == UNION {[1..n -> S] : n \in lo..hi}

(***************************************************************************)
(* Gate evaluators: each takes the list of input values and returns the    *)
(* list of output values.                                                  *)
(***************************************************************************)
\* the mutant of AND: an unknown input is looked for before a ZERO input
_simulate_and_XFirst(inputs) ==
    IF In(X, inputs) THEN <<X>>
    ELSE IF In(ZERO, inputs) THEN <<ZERO>>
    ELSE <<ONE>>

_simulate_and(inputs) ==
    IF In(ZERO, inputs) THEN <<ZERO>>
    ELSE IF In(X, inputs) THEN <<X>>
    ELSE <<ONE>>

_simulate_or(inputs) ==
    IF In(ONE, inputs) THEN <<ONE>>
    ELSE IF In(X, inputs) THEN <<X>>
    ELSE <<ZERO>>

_simulate_not(inputs) ==
    IF Len(inputs) = 0 THEN <<X>>
    ELSE IF inputs[1] = ZERO THEN <<ONE>>
    ELSE IF inputs[1] = ONE THEN <<ZERO>>
    ELSE <<X>>

_simulate_nand(inputs) == _simulate_not(<<_simulate_and(inputs)[1]>>)

_simulate_nor(inputs) == _simulate_not(<<_simulate_or(inputs)[1]>>)

ones_count(inputs) == Cardinality({i \in 1..Len(inputs) : inputs[i] = ONE})

\* the mutant of XOR: the unknown inputs are left out of the count
_simulate_xor_SkipUnknown(inputs) ==
    IF Len(inputs) < 2 THEN <<X>>
    ELSE IF ones_count(inputs) % 2 = 1 THEN <<ONE>>
    ELSE <<ZERO>>

_simulate_xor(inputs) ==
    IF Len(inputs) < 2 THEN <<X>>
    ELSE IF In(X, inputs) THEN <<X>>
    ELSE IF ones_count(inputs) % 2 = 1 THEN <<ONE>>
    ELSE <<ZERO>>

_simulate_xnor(inputs) == _simulate_not(<<_simulate_xor(inputs)[1]>>)

\* the mutant of the full adder: the carry forgets the (a, cin) term
_simulate_full_adder_NoAci(inputs) ==
    IF Len(inputs) < 3 THEN <<X, X>>
    ELSE LET a == inputs[1]
             b == inputs[2]
             ci == inputs[3]
             sum_result == _simulate_xor(<<a, b, ci>>)[1]
             ab == _simulate_and(<<a, b>>)[1]
             bci == _simulate_and(<<b, ci>>)[1]
             carry_out == _simulate_or(<<ab, bci>>)[1]
         IN  <<carry_out, sum_result>>

\* returns [COUT, SUM]
_simulate_full_adder(inputs) ==
    IF Len(inputs) < 3 THEN <<X, X>>
    ELSE LET a == inputs[1]
             b == inputs[2]
             ci == inputs[3]
             sum_result == _simulate_xor(<<a, b, ci>>)[1]
             ab == _simulate_and(<<a, b>>)[1]
             bci == _simulate_and(<<b, ci>>)[1]
             aci == _simulate_and(<<a, ci>>)[1]
             carry_out == _simulate_or(<<ab, bci, aci>>)[1]
         IN  <<carry_out, sum_result>>

\* returns [COUT, SUM]
_simulate_half_adder(inputs) ==
    IF Len(inputs) < 2 THEN <<X, X>>
    ELSE LET a == inputs[1]
             b == inputs[2]
             sum_result == _simulate_xor(<<a, b>>)[1]
             carry_out == _simulate_and(<<a, b>>)[1]
         IN  <<carry_out, sum_result>>

\* returns [BOUT, DIFF]
_simulate_half_subtractor(inputs) ==
    IF Len(inputs) < 2 THEN <<X, X>>
    ELSE LET a == inputs[1]
             b == inputs[2]
             diff_result == _simulate_xor(<<a, b>>)[1]
             not_a == _simulate_not(<<a>>)[1]
             borrow_out == _simulate_and(<<not_a, b>>)[1]
         IN  <<borrow_out, diff_result>>

\* returns [BOUT, DIFF]
_simulate_full_subtractor(inputs) ==
    IF Len(inputs) < 3 THEN <<X, X>>
    ELSE LET a == inputs[1]
             b == inputs[2]
             bi == inputs[3]
             diff_result == _simulate_xor(<<a, b, bi>>)[1]
             not_a == _simulate_not(<<a>>)[1]
             not_a_and_b == _simulate_and(<<not_a, b>>)[1]
             not_a_and_bi == _simulate_and(<<not_a, bi>>)[1]
             b_and_bi == _simulate_and(<<b, bi>>)[1]
             borrow_out == _simulate_or(<<not_a_and_b, not_a_and_bi, b_and_bi>>)[1]
         IN  <<borrow_out, diff_result>>

_simulate_mux2(inputs) ==
    IF Len(inputs) < 3 THEN <<X>>
    ELSE LET a == inputs[1]
             b == inputs[2]
             s == inputs[3]
             not_s == _simulate_not(<<s>>)[1]
             not_s_and_a == _simulate_and(<<not_s, a>>)[1]
             s_and_b == _simulate_and(<<s, b>>)[1]
         IN  <<_simulate_or(<<not_s_and_a, s_and_b>>)[1]>>

_simulate_mux4(inputs) ==
    IF Len(inputs) < 6 THEN <<X>>
    ELSE LET a == inputs[1]
             b == inputs[2]
             c == inputs[3]
             d == inputs[4]
             s1 == inputs[5]
             s0 == inputs[6]
             not_s1 == _simulate_not(<<s1>>)[1]
             not_s0 == _simulate_not(<<s0>>)[1]
             term1 == _simulate_and(<<not_s1, not_s0, a>>)[1]
             term2 == _simulate_and(<<not_s1, s0, b>>)[1]
             term3 == _simulate_and(<<s1, not_s0, c>>)[1]
             term4 == _simulate_and(<<s1, s0, d>>)[1]
         IN  <<_simulate_or(<<term1, term2, term3, term4>>)[1]>>

\* the mutant of the dispatch: an unknown tag gives ZERO per declared output
\* also when the gate has inputs
GateFunction_UnknownZero(gate_type, input_values, n_outputs) ==
    CASE gate_type = "and" -> _simulate_and(input_values)
      [] gate_type = "or" -> _simulate_or(input_values)
      [] gate_type = "not" -> _simulate_not(input_values)
      [] gate_type = "nand" -> _simulate_nand(input_values)
      [] gate_type = "nor" -> _simulate_nor(input_values)
      [] gate_type = "xor" -> _simulate_xor(input_values)
      [] gate_type = "xnor" -> _simulate_xnor(input_values)
      [] gate_type = "fa" -> _simulate_full_adder(input_values)
      [] gate_type = "ha" -> _simulate_half_adder(input_values)
      [] gate_type = "fs" -> _simulate_full_subtractor(input_values)
      [] gate_type = "hs" -> _simulate_half_subtractor(input_values)
      [] gate_type \in {"mux", "mux2"} -> _simulate_mux2(input_values)
      [] gate_type = "mux4" -> _simulate_mux4(input_values)
      [] gate_type = "complex" -> _simulate_and(input_values)
      [] OTHER -> [i \in 1..n_outputs |-> ZERO]

\* the dispatch of _simulate_gate on the gate-type tag; n_outputs is
\* len(gate.outputs), used only by the fallback of an unknown tag
GateFunction(gate_type, input_values, n_outputs) ==
    CASE gate_type = "and" -> _simulate_and(input_values)
      [] gate_type = "or" -> _simulate_or(input_values)
      [] gate_type = "not" -> _simulate_not(input_values)
      [] gate_type = "nand" -> _simulate_nand(input_values)
      [] gate_type = "nor" -> _simulate_nor(input_values)
      [] gate_type = "xor" -> _simulate_xor(input_values)
      [] gate_type = "xnor" -> _simulate_xnor(input_values)
      [] gate_type = "fa" -> _simulate_full_adder(input_values)
      [] gate_type = "ha" -> _simulate_half_adder(input_values)
      [] gate_type = "fs" -> _simulate_full_subtractor(input_values)
      [] gate_type = "hs" -> _simulate_half_subtractor(input_values)
      [] gate_type \in {"mux", "mux2"} -> _simulate_mux2(input_values)
      [] gate_type = "mux4" -> _simulate_mux4(input_values)
      [] gate_type = "complex" -> _simulate_and(input_values)
      [] OTHER -> IF Len(input_values) > 0
                  THEN _simulate_and(input_values)
                  ELSE [i \in 1..n_outputs |-> ZERO]

(***************************************************************************)
(* The circuit model: Gate, Net, Module                                    *)
(***************************************************************************)
\* a Gate whose port_map is left at its default, the empty dict
Gate(name, gate_type, inputs, outputs) ==
    [name |-> name, gate_type |-> gate_type, inputs |-> inputs, outputs |-> outputs,
     port_map |-> <<>>]

\* Module(name, ports, gates, nets): ports maps a port name to its
\* direction, nets is the set of names with a declared Net object
Module(name, ports, gates, nets) ==
    [name |-> name, ports |-> ports, gates |-> gates, nets |-> nets]

\* the empty dict
EmptyMap == <<>>

\* d[k] = v on a dict
Put(d, k, v) == [n \in DOMAIN d \cup {k} |-> IF n = k THEN v ELSE d[n]]

Max(S) == CHOOSE m \in S : \A n \in S : n <= m

\* the gates of all modules, in the order the nested loops
\* `for module in self.modules: for gate in module.gates` visit them
RECURSIVE FlatGates(_)
FlatGates(ms) ==
    IF Len(ms) = 0 THEN <<>> ELSE Head(ms).gates \o FlatGates(Tail(ms))

\* input values of a gate as _simulate_gate collects them: a net missing
\* from all_nets reads as ZERO
GateInputValues(gate, nets) ==
    [i \in 1..Len(gate.inputs) |->
        IF gate.inputs[i] \in DOMAIN nets THEN nets[gate.inputs[i]] ELSE ZERO]

_simulate_gate(gate, nets) ==
    GateFunction(gate.gate_type, GateInputValues(gate, nets), Len(gate.outputs))

(***************************************************************************)
(* Text: the str operations and the regular expressions the parser uses.   *)
(* A text is a TLA+ string, indices are 0-based as in Python.              *)
(***************************************************************************)
\* s[i]
Char(s, i) == SubSeq(s, i + 1, i + 1)

\* s[a:b]
Slice(s, a, b) == IF a < b THEN SubSeq(s, a + 1, b) ELSE ""

LowerCase == "abcdefghijklmnopqrstuvwxyz"
UpperCase == "ABCDEFGHIJKLMNOPQRSTUVWXYZ"
Digits == "0123456789"

CharsOf(s) == {Char(s, i) : i \in 0..(Len(s) - 1)}

\* the classes \s, \d, \w and [a-zA-Z_]
Whitespace == {" ", "\t", "\n", "\r"}
Digit == CharsOf(Digits)
WordChar == CharsOf(LowerCase) \cup CharsOf(UpperCase) \cup Digit \cup {"_"}
IdentStart == CharsOf(LowerCase) \cup CharsOf(UpperCase) \cup {"_"}

Min(S) == CHOOSE m \in S : \A n \in S : m <= n

\* the end of the longest run of characters of class C that starts at i
SkipWhile(s, i, C) ==
    Min({j \in i..Len(s) : j = Len(s) \/ Char(s, j) \notin C})

\* s.startswith(lit, i)
StartsWith(s, i, lit) ==
    i + Len(lit) <= Len(s) /\ Slice(s, i, i + Len(lit)) = lit

\* s.find(sub, start): -1 when sub does not occur
find(s, sub, start) ==
    LET hits == {i \in start..Len(s) : StartsWith(s, i, sub)}
    IN  IF hits = {} THEN -1 ELSE Min(hits)

\* `sub in s`
Contains(s, sub) == find(s, sub, 0) # -1

\* s.strip()
strip(s) ==
    LET a == SkipWhile(s, 0, Whitespace)
        b == Max({j \in 0..Len(s) : j = 0 \/ Char(s, j - 1) \notin Whitespace})
    IN  Slice(s, a, b)

\* s.rstrip(',')
rstrip_comma(s) ==
    Slice(s, 0, Max({j \in 0..Len(s) : j = 0 \/ Char(s, j - 1) # ","}))

\* s.split(sep) for a one-character separator
RECURSIVE split(_, _)
split(s, sep) ==
    LET i == find(s, sep, 0)
    IN  IF i = -1 THEN <<s>>
        ELSE <<Slice(s, 0, i)>> \o split(Slice(s, i + 1, Len(s)), sep)

\* s.lower()
RECURSIVE lower(_)
lower(s) ==
    IF s = "" THEN ""
    ELSE LET c == Char(s, 0)
             i == find(UpperCase, c, 0)
         IN  (IF i = -1 THEN c ELSE Char(LowerCase, i)) \o lower(Slice(s, 1, Len(s)))

\* int(s) of a digit string
RECURSIVE int(_)
int(s) ==
    IF s = "" THEN 0
    ELSE int(Slice(s, 0, Len(s) - 1)) * 10 + find(Digits, Char(s, Len(s) - 1), 0)

\* re.sub(r'[...]', '', s): s without the characters of class C
RECURSIVE Remove(_, _)
Remove(s, C) ==
    IF s = "" THEN ""
    ELSE (IF Char(s, 0) \in C THEN "" ELSE Char(s, 0)) \o Remove(Slice(s, 1, Len(s)), C)

\* dict.update
Update(d, e) ==
    [k \in DOMAIN d \cup DOMAIN e |-> IF k \in DOMAIN e THEN e[k] ELSE d[k]]

\* the elements of a list without repetition, in every order a set may
\* be iterated in: list(set(variables))
SetOrders(S) ==
    {p \in [1..Cardinality(S) -> S] : \A i, j \in 1..Cardinality(S) : p[i] = p[j] => i = j}

(***************************************************************************)
(* Regular expressions.  A pattern is the list of its items, matched left   *)
(* to right with the backtracking of Python's re: a greedy item takes the   *)
(* most the rest of the pattern allows, a lazy one the least.               *)
(***************************************************************************)
NoMatch == [ok |-> FALSE]

\* a literal text
Lit(v) == [t |-> "lit", v |-> v]
\* one character of a class: [...]
One(chars) == [t |-> "run", chars |-> chars, neg |-> FALSE, min |-> 1, max |-> 1]
\* greedy repetitions of a class: [...]+ and [...]*, [^...]+
Plus(chars) == [t |-> "run", chars |-> chars, neg |-> FALSE, min |-> 1, max |-> -1]
Star(chars) == [t |-> "run", chars |-> chars, neg |-> FALSE, min |-> 0, max |-> -1]
PlusNot(chars) == [t |-> "run", chars |-> chars, neg |-> TRUE, min |-> 1, max |-> -1]
\* .*? , with re.DOTALL or without
Lazy(dotall) == [t |-> "lazy", dotall |-> dotall]
\* capture group g: (...)
Group(g, sub) == [t |-> "group", g |-> g, sub |-> sub]
\* (?:...)? and (?:...)*
Opt(sub) == [t |-> "opt", sub |-> sub]
Many(sub) == [t |-> "many", sub |-> sub]
\* a|b|c of literal texts
Alt(texts) == [t |-> "alt", texts |-> texts]
\* \b
Boundary == [t |-> "b"]

\* \b at index i
WordBoundary(s, i) ==
    (i > 0 /\ Char(s, i - 1) \in WordChar) # (i < Len(s) /\ Char(s, i) \in WordChar)

\* the end of the longest run from index i on that an item of kind "run"
\* can take, n characters being taken already
RECURSIVE RunEnd(_, _, _, _)
RunEnd(s, i, item, n) ==
    IF i >= Len(s) \/ n = item.max THEN i
    ELSE IF (Char(s, i) \in item.chars) = item.neg THEN i
    ELSE RunEnd(s, i + 1, item, n + 1)

\* how many characters from index i on .*? can take at most
LazyLength(s, i, item) ==
    IF item.dotall THEN Len(s) - i
    ELSE Min({j \in i..Len(s) : j = Len(s) \/ Char(s, j) = "\n"}) - i

\* the first of two attempts that succeeds
OrElse(first, second) == IF first.ok THEN first ELSE second

\* match(items, s, i, groups): the pattern `items` matched at index i of s:
\* where the match ends and what its groups captured
RECURSIVE match(_, _, _, _)

\* a greedy item that can end at any index of first..j: `found` is the
\* rest of the pattern matched at index j; when it failed the item gives
\* one character back
RECURSIVE Backtrack(_, _, _, _, _, _)
Backtrack(rest, s, groups, first, j, found) ==
    IF j < first THEN NoMatch
    ELSE IF found.ok \/ j = first THEN found
    ELSE Backtrack(rest, s, groups, first, j - 1, match(rest, s, j - 1, groups))

\* a lazy item: of the indices at which the rest matches, the first
Earliest(rest, s, groups, ends) ==
    IF ends = {} THEN NoMatch ELSE match(rest, s, Min(ends), groups)

match(items, s, i, groups) ==
    IF items = <<>> THEN [ok |-> TRUE, end |-> i, groups |-> groups]
    ELSE CASE Head(items).t = "lit" ->
                IF StartsWith(s, i, Head(items).v)
                THEN match(Tail(items), s, i + Len(Head(items).v), groups)
                ELSE NoMatch
           [] Head(items).t = "run" ->
                Backtrack(Tail(items), s, groups, i + Head(items).min,
                          RunEnd(s, i, Head(items), 0),
                          match(Tail(items), s, RunEnd(s, i, Head(items), 0), groups))
           [] Head(items).t = "lazy" ->
                Earliest(Tail(items), s, groups,
                         {j \in i..(i + LazyLength(s, i, Head(items))) :
                             match(Tail(items), s, j, groups).ok})
           [] Head(items).t = "group" ->
                match(Head(items).sub
                        \o <<[t |-> "close", g |-> Head(items).g, from |-> i]>>
                        \o Tail(items), s, i, groups)
           [] Head(items).t = "close" ->
                match(Tail(items), s, i,
                      [groups EXCEPT ![Head(items).g] = Slice(s, Head(items).from, i)])
           [] Head(items).t = "opt" ->
                OrElse(match(Head(items).sub \o Tail(items), s, i, groups),
                       match(Tail(items), s, i, groups))
           [] Head(items).t = "many" ->
                OrElse(match(Head(items).sub \o items, s, i, groups),
                       match(Tail(items), s, i, groups))
           [] Head(items).t = "alt" ->
                IF Head(items).texts = <<>> THEN NoMatch
                ELSE OrElse(match(<<Lit(Head(Head(items).texts))>> \o Tail(items), s, i, groups),
                            match(<<Alt(Tail(Head(items).texts))>> \o Tail(items), s, i, groups))
           [] Head(items).t = "b" ->
                IF WordBoundary(s, i) THEN match(Tail(items), s, i, groups) ELSE NoMatch

\* a compiled pattern: its items and the number of its groups
Pattern(items, n) == [items |-> items, groups |-> [g \in 1..n |-> ""]]

\* pattern.match(s, i): also where the match starts
MatchAt(pattern, s, i) ==
    [start |-> i] @@ match(pattern.items, s, i, pattern.groups)

\* re.match(pattern, s)
re_match(pattern, s) == MatchAt(pattern, s, 0)

\* re.findall(pattern, s), from index pos on: the matches from left to
\* right, each search resuming where the previous match ended
RECURSIVE FindFrom(_, _, _)
\* `starts` are the indices at which the pattern matches and `found` is
\* the match at the first of them: the next match starts where it ends or
\* later
FindNext(pattern, s, starts, found) ==
    <<found>> \o FindFrom(pattern, s, {i \in starts : i >= found.end})

FindFrom(pattern, s, starts) ==
    IF starts = {} THEN <<>>
    ELSE FindNext(pattern, s, starts, MatchAt(pattern, s, Min(starts)))

findall(pattern, s, pos) ==
    FindFrom(pattern, s, {i \in pos..(Len(s) - 1) : match(pattern.items, s, i, pattern.groups).ok})

Directions == <<"input", "output", "inout">>

\* \[(\d+):(\d+)\] with groups g and g + 1, and the same without groups
BitRange(g) == <<Lit("["), Group(g, <<Plus(Digit)>>), Lit(":"), Group(g + 1, <<Plus(Digit)>>), Lit("]")>>
BitRangeText == <<Lit("["), Plus(Digit), Lit(":"), Plus(Digit), Lit("]")>>
\* \[\d+\]
IndexText == <<Lit("["), Plus(Digit), Lit("]")>>
\* \s*\((.*?)\)\s*; with group g
Connected(g) ==
    <<Star(Whitespace), Lit("("), Group(g, <<Lazy(TRUE)>>), Lit(")"), Star(Whitespace), Lit(";")>>

\* module\s+([^\s(]+)\s*\((.*?)\)\s*;  with re.DOTALL
module_pattern ==
    Pattern(<<Lit("module"), Plus(Whitespace), Group(1, <<PlusNot(Whitespace \cup {"("})>>)>>
              \o Connected(2), 2)
\* KEYWORD\s+(\w+)\s*\((.*?)\)\s*;  with re.DOTALL
keyword_pattern(keyword) ==
    Pattern(<<Lit(keyword), Plus(Whitespace), Group(1, <<Plus(WordChar)>>)>> \o Connected(2), 2)
\* (\w+)\s+(\w+)\s*\((.*?)\)\s*;  with re.DOTALL
instance_pattern ==
    Pattern(<<Group(1, <<Plus(WordChar)>>), Plus(Whitespace), Group(2, <<Plus(WordChar)>>)>>
              \o Connected(3), 3)
\* assign\s+(\w+(?:\[\d+\])?)\s*=\s*(.*?)\s*;  with re.DOTALL
assign_pattern ==
    Pattern(<<Lit("assign"), Plus(Whitespace), Group(1, <<Plus(WordChar), Opt(IndexText)>>),
              Star(Whitespace), Lit("="), Star(Whitespace), Group(2, <<Lazy(TRUE)>>),
              Star(Whitespace), Lit(";")>>, 2)
\* (input|output|inout)\s+([^;]+);
body_port_pattern ==
    Pattern(<<Group(1, <<Alt(Directions)>>), Plus(Whitespace), Group(2, <<PlusNot({";"})>>),
              Lit(";")>>, 2)
\* \b(input|output|inout)\b
direction_pattern == Pattern(<<Boundary, Group(1, <<Alt(Directions)>>), Boundary>>, 1)
\* (input|output|inout)\s+(?:\[(\d+):(\d+)\])?\s*(\w+)
port_pattern ==
    Pattern(<<Group(1, <<Alt(Directions)>>), Plus(Whitespace), Opt(BitRange(2)), Star(Whitespace),
              Group(4, <<Plus(WordChar)>>)>>, 4)
\* wire\s+(\w+(?:\[\d+:\d+\])?)\s*(?:,(\w+(?:\[\d+:\d+\])?))*\s*;
wire_pattern ==
    Pattern(<<Lit("wire"), Plus(Whitespace), Group(1, <<Plus(WordChar), Opt(BitRangeText)>>),
              Star(Whitespace),
              Many(<<Lit(","), Group(2, <<Plus(WordChar), Opt(BitRangeText)>>)>>),
              Star(Whitespace), Lit(";")>>, 2)
\* \b[a-zA-Z_]\w*(?:\[\d+\])?
variable_pattern ==
    Pattern(<<Boundary, One(IdentStart), Star(WordChar), Opt(IndexText)>>, 0)
\* [a-zA-Z_]\w*(?:\[\d+\])?
loose_variable_pattern == Pattern(<<One(IdentStart), Star(WordChar), Opt(IndexText)>>, 0)
\* \[(\d+):(\d+)\]\s*(\w+)
array_pattern == Pattern(BitRange(1) \o <<Star(Whitespace), Group(3, <<Plus(WordChar)>>)>>, 3)
\* (\w+)
name_pattern == Pattern(<<Group(1, <<Plus(WordChar)>>)>>, 1)
\* \.(\w+)\s*\((.*?)\)
named_pattern ==
    Pattern(<<Lit("."), Group(1, <<Plus(WordChar)>>), Star(Whitespace), Lit("("),
              Group(2, <<Lazy(FALSE)>>), Lit(")")>>, 2)

(***************************************************************************)
(* VerilogParser                                                           *)
(***************************************************************************)
\* ports[f"{port_name}[{i}]"] = direction for every i of the range, and
\* ports[port_name] = direction
ExpandRange(ports, port_name, msb, lsb, direction) ==
    LET lo == IF int(msb) <= int(lsb) THEN int(msb) ELSE int(lsb)
        hi == IF int(msb) <= int(lsb) THEN int(lsb) ELSE int(msb)
        keys == {port_name \o "[" \o ToString(i) \o "]" : i \in lo..hi} \cup {port_name}
    IN  [k \in DOMAIN ports \cup keys |-> IF k \in keys THEN direction ELSE ports[k]]

\* one round of `for port_item in port_items` of _parse_ports
HeaderItem(ports, current_direction, array_match, port_match) ==
    IF array_match.ok
    THEN ExpandRange(ports, array_match.groups[3], array_match.groups[1],
                     array_match.groups[2], current_direction)
    ELSE IF port_match.ok THEN Put(ports, port_match.groups[1], current_direction)
    ELSE ports

\* the loop `for port_item in port_items`, which skips the empty items
RECURSIVE HeaderItems(_, _, _)
HeaderItems(port_items, current_direction, ports) ==
    IF port_items = <<>> THEN ports
    ELSE HeaderItems(Tail(port_items), current_direction,
                     IF strip(Head(port_items)) = "" THEN ports
                     ELSE HeaderItem(ports, current_direction,
                                     re_match(array_pattern, strip(Head(port_items))),
                                     re_match(name_pattern, strip(Head(port_items)))))

\* one text token of the loop `for token in tokens` of _parse_ports
HeaderToken(token, current_direction, ports) ==
    IF token = "" THEN ports
    ELSE HeaderItems(split(strip(rstrip_comma(token)), ","), current_direction, ports)

\* the loop `for token in tokens` over the pieces re.split cuts ports_str
\* into: each direction keyword and the text that follows it
RECURSIVE HeaderTokens(_, _, _, _)
HeaderTokens(ports_str, keywords, k, ports) ==
    IF k > Len(keywords) THEN ports
    ELSE HeaderTokens(ports_str, keywords, k + 1,
                      HeaderToken(strip(Slice(ports_str, keywords[k].end,
                                              IF k < Len(keywords) THEN keywords[k + 1].start
                                              ELSE Len(ports_str))),
                                  keywords[k].groups[1], ports))

\* the loop over the matches of the fallback port_pattern of _parse_ports
RECURSIVE HeaderFallback(_, _)
HeaderFallback(matches, ports) ==
    IF matches = <<>> THEN ports
    ELSE HeaderFallback(Tail(matches),
                        IF Head(matches).groups[2] # "" /\ Head(matches).groups[3] # ""
                        THEN ExpandRange(ports, Head(matches).groups[4], Head(matches).groups[2],
                                         Head(matches).groups[3], Head(matches).groups[1])
                        ELSE Put(ports, Head(matches).groups[4], Head(matches).groups[1]))

_parse_ports(ports_str) ==
    HeaderFallback(findall(port_pattern, ports_str, 0),
                   HeaderTokens(ports_str, findall(direction_pattern, ports_str, 0),
                                1, EmptyMap))

\* one round of `for port_name in port_names` of _parse_ports_from_body
BodyName(port_name, direction, ports) ==
    IF Contains(port_name, "[") /\ Contains(port_name, "]")
    THEN Put(Put(ports, port_name, direction), split(port_name, "[")[1], direction)
    ELSE Put(ports, port_name, direction)

RECURSIVE BodyNames(_, _, _)
BodyNames(port_names, direction, ports) ==
    IF port_names = <<>> THEN ports
    ELSE BodyNames(Tail(port_names), direction,
                   BodyName(strip(Head(port_names)), direction, ports))

\* the loop `for direction, port_list in matches` of _parse_ports_from_body
RECURSIVE BodyDeclarations(_, _)
BodyDeclarations(matches, ports) ==
    IF matches = <<>> THEN ports
    ELSE BodyDeclarations(Tail(matches),
                          BodyNames(split(Head(matches).groups[2], ","),
                                    Head(matches).groups[1], ports))

_parse_ports_from_body(code) ==
    LET module_start == find(code, "module", 0)
        body_start == find(code, ";", module_start)
        endmodule == find(code, "endmodule", body_start)
        body_end == IF endmodule = -1 THEN Len(code) ELSE endmodule
    IN  IF module_start = -1 THEN EmptyMap
        ELSE IF body_start = -1 THEN EmptyMap
        ELSE BodyDeclarations(findall(body_port_pattern, Slice(code, body_start, body_end), 0),
                              EmptyMap)

\* port names _parse_gate_connections takes for outputs
OutputPortNames == {"y", "out", "z", "q", "sum", "cout", "diff", "bout", "s", "co", "bo"}

\* the mutant of Named: the port name is compared as it is written
Named_CaseSensitive(acc, port_name, net_name) ==
    IF port_name \in OutputPortNames
    THEN [acc EXCEPT !.port_map = Put(@, port_name, net_name),
                     !.outputs = Append(@, net_name)]
    ELSE [acc EXCEPT !.port_map = Put(@, port_name, net_name),
                     !.inputs = Append(@, net_name)]

\* a named connection .port_name(net_name)
Named(acc, port_name, net_name) ==
    IF lower(port_name) \in OutputPortNames
    THEN [acc EXCEPT !.port_map = Put(@, port_name, net_name),
                     !.outputs = Append(@, net_name)]
    ELSE [acc EXCEPT !.port_map = Put(@, port_name, net_name),
                     !.inputs = Append(@, net_name)]

\* one round of `for conn in conns` of _parse_gate_connections
Connection(acc, conn, named) ==
    IF Contains(conn, ".")
    THEN IF named.ok THEN Named(acc, named.groups[1], strip(named.groups[2])) ELSE acc
    ELSE [acc EXCEPT !.inputs = Append(@, conn)]

RECURSIVE Connections(_, _)
Connections(conns, acc) ==
    IF conns = <<>> THEN acc
    ELSE Connections(Tail(conns),
                     Connection(acc, strip(Head(conns)),
                                re_match(named_pattern, strip(Head(conns)))))

_parse_gate_connections(connections) ==
    Connections(split(connections, ","),
                [inputs |-> <<>>, outputs |-> <<>>, port_map |-> EmptyMap])

\* Gate(name=..., gate_type=..., inputs=inputs, outputs=outputs, port_map=port_map)
\* of the (inputs, outputs, port_map) that _parse_gate_connections returned
GateOf(name, gate_type, connected) ==
    [Gate(name, gate_type, connected.inputs, connected.outputs)
        EXCEPT !.port_map = connected.port_map]

\* (keyword, gate_type) of the regular expressions, in the order tried
gate_patterns ==
    <<<<"XNOR", "xnor">>, <<"XOR", "xor">>, <<"NAND", "nand">>, <<"NOR", "nor">>,
      <<"AND", "and">>, <<"OR", "or">>, <<"NOT", "not">>, <<"INV", "not">>,
      <<"MUX", "mux">>, <<"MUX2", "mux2">>, <<"MUX4", "mux4">>,
      <<"HA", "ha">>, <<"FA", "fa">>, <<"HS", "hs">>, <<"FS", "fs">>,
      <<"xnor", "xnor">>, <<"xor", "xor">>, <<"nand", "nand">>, <<"nor", "nor">>,
      <<"and", "and">>, <<"or", "or">>, <<"not", "not">>,
      <<"ha", "ha">>, <<"fa", "fa">>, <<"hs", "hs">>, <<"fs", "fs">>>>

\* gates.append(gate); seen_gates.add(name)
Seen(acc, gate) ==
    [gates |-> Append(acc.gates, gate), seen_gates |-> acc.seen_gates \cup {gate.name}]

\* the loop `for match in matches` of _parse_gate_instances; acc holds the
\* gates list and the seen_gates set
RECURSIVE GateMatches(_, _, _)
GateMatches(matches, gate_type, acc) ==
    IF matches = <<>> THEN acc
    ELSE GateMatches(Tail(matches), gate_type,
                     IF Head(matches).groups[1] \notin acc.seen_gates
                     THEN Seen(acc, GateOf(Head(matches).groups[1], gate_type,
                                           _parse_gate_connections(Head(matches).groups[2])))
                     ELSE acc)

\* the loop `for pattern, gate_type in gate_patterns`
RECURSIVE GatePatterns(_, _, _)
GatePatterns(k, module_body, acc) ==
    IF k > Len(gate_patterns) THEN acc
    ELSE GatePatterns(k + 1, module_body,
                      GateMatches(findall(keyword_pattern(gate_patterns[k][1]), module_body, 0),
                                  gate_patterns[k][2], acc))

\* _parse_gate_instances: the gates list it returns and seen_gates as it
\* leaves it
_parse_gate_instances(module_body, seen_gates) ==
    GatePatterns(1, module_body, [gates |-> <<>>, seen_gates |-> seen_gates])

PrimitiveTypes == {"and", "or", "not", "nand", "nor", "xor", "xnor"}

\* gate_type_mapping.get(module_type, module_type)
gate_type_mapping(module_type) ==
    CASE module_type \in {"full_adder", "FullAdder"} -> "fa"
      [] module_type \in {"half_adder", "HalfAdder"} -> "ha"
      [] module_type \in {"full_subtractor", "FullSubtractor"} -> "fs"
      [] module_type \in {"half_subtractor", "HalfSubtractor"} -> "hs"
      [] module_type \in {"mux2", "Mux"} -> "mux2"
      [] module_type = "mux4" -> "mux4"
      [] OTHER -> module_type

\* the loop over the matches of _parse_module_instances
RECURSIVE InstanceMatches(_, _)
InstanceMatches(matches, acc) ==
    IF matches = <<>> THEN acc
    ELSE InstanceMatches(Tail(matches),
                         IF /\ Head(matches).groups[2] \notin acc.seen_gates
                            /\ Head(matches).groups[1] \notin PrimitiveTypes
                         THEN Seen(acc, GateOf(Head(matches).groups[2],
                                               gate_type_mapping(Head(matches).groups[1]),
                                               _parse_gate_connections(Head(matches).groups[3])))
                         ELSE acc)

\* _parse_module_instances: the gates list it returns and seen_gates as it
\* leaves it
_parse_module_instances(module_body, seen_gates) ==
    InstanceMatches(findall(instance_pattern, module_body, 0),
                    [gates |-> <<>>, seen_gates |-> seen_gates])

\* the gate type _parse_expression finds: expression is original_expression
\* without ! ~ ( )
ExpressionType(expression, original_expression, has_not) ==
    IF Contains(expression, "^") /\ (Contains(expression, "&") \/ Contains(expression, "|"))
    THEN "complex"
    ELSE IF Contains(expression, "&") /\ Contains(expression, "|") THEN "and"
    ELSE IF Contains(expression, "^")
    THEN IF has_not /\ ~(Contains(original_expression, "&") \/ Contains(original_expression, "|"))
         THEN "xnor" ELSE "xor"
    ELSE IF Contains(expression, "&") THEN "and"
    ELSE IF Contains(expression, "|")
    THEN IF has_not /\ ~Contains(original_expression, "&") THEN "nor" ELSE "or"
    ELSE IF has_not THEN "not"
    ELSE "unknown"

\* the texts a list of matches covers
Matched(s, matches) == [k \in 1..Len(matches) |-> Slice(s, matches[k].start, matches[k].end)]

\* the variables _parse_expression finds, as a list
Variables(original_expression, variables) ==
    IF variables # <<>> THEN Matched(original_expression, variables)
    ELSE Matched(original_expression, findall(loose_variable_pattern, original_expression, 0))

\* _parse_expression(expression) after expression.strip()
Expression(original_expression, has_not) ==
    [variables |-> Variables(original_expression,
                             findall(variable_pattern, original_expression, 0)),
     gate_type |-> ExpressionType(Remove(original_expression,
                                         IF has_not THEN {"!", "~", "(", ")"} ELSE {"(", ")"}),
                                  original_expression, has_not)]

_parse_expression(expression) ==
    Expression(strip(expression),
               Contains(strip(expression), "!") \/ Contains(strip(expression), "~"))

\* the gates of one assign statement, each followed by those of the later
\* statements. inputs = list(set(variables)) comes in the order the set is
\* iterated in, which the language leaves open
AssignGates(output_var, parsed, later) ==
    {<<Gate("assign_" \o output_var, parsed.gate_type, inputs, <<output_var>>)>> \o rest :
        inputs \in SetOrders(Range(parsed.variables)), rest \in later}

\* the loop over the matches of _parse_assign_statements: the lists of
\* gates it can build
RECURSIVE AssignMatches(_, _)
AssignMatches(matches, seen_gates) ==
    IF matches = <<>> THEN {<<>>}
    ELSE IF Head(matches).groups[1] \in seen_gates
    THEN AssignMatches(Tail(matches), seen_gates)
    ELSE AssignGates(Head(matches).groups[1], _parse_expression(Head(matches).groups[2]),
                     AssignMatches(Tail(matches), seen_gates \cup {Head(matches).groups[1]}))

_parse_assign_statements(module_body, seen_gates) ==
    AssignMatches(findall(assign_pattern, module_body, 0), seen_gates)

\* the names the matches of wire_pattern declare
Wires(matches) ==
    UNION {{matches[k].groups[1]}
              \cup {strip(wire) : wire \in {w \in Range(split(matches[k].groups[2], ",")) :
                                              strip(w) # ""}} :
           k \in 1..Len(matches)}

\* _parse_net_declarations: the names a Net object is made for
_parse_net_declarations(module_body) == Wires(findall(wire_pattern, module_body, 0))

\* what _extract_gates_and_nets can return, given what the two instance
\* parsers returned
Extracted(module_body, primitives, instances) ==
    {[gates |-> primitives.gates \o instances.gates \o assigns,
      nets |-> _parse_net_declarations(module_body)] :
        assigns \in _parse_assign_statements(module_body, instances.seen_gates)}

\* _extract_gates_and_nets from its first call of a parser on, which has
\* returned `primitives`
AfterPrimitives(module_body, primitives) ==
    Extracted(module_body, primitives,
              _parse_module_instances(module_body, primitives.seen_gates))

\* the mutant of _extract_gates_and_nets: a body without endmodule is not
\* parsed
_extract_gates_and_nets_EmptyWithoutEnd(code, module_name) ==
    LET module_start == find(code, "module " \o module_name, 0)
        begin == find(code, "begin", module_start)
        body_start == IF begin = -1 THEN find(code, ";", module_start) + 1 ELSE begin
        endmodule == find(code, "endmodule", body_start)
    IN  IF module_start = -1 \/ endmodule = -1 THEN {[gates |-> <<>>, nets |-> {}]}
        ELSE AfterPrimitives(Slice(code, body_start, endmodule),
                             _parse_gate_instances(Slice(code, body_start, endmodule), {}))

\* _extract_gates_and_nets: every (gates, nets) it can return
_extract_gates_and_nets(code, module_name) ==
    LET module_start == find(code, "module " \o module_name, 0)
        begin == find(code, "begin", module_start)
        body_start == IF begin = -1 THEN find(code, ";", module_start) + 1 ELSE begin
        endmodule == find(code, "endmodule", body_start)
        body_end == IF endmodule = -1 THEN Len(code) ELSE endmodule
    IN  IF module_start = -1 THEN {[gates |-> <<>>, nets |-> {}]}
        ELSE AfterPrimitives(Slice(code, body_start, body_end),
                             _parse_gate_instances(Slice(code, body_start, body_end), {}))

\* the mutant of _create_module_from_string: the header's direction is kept
\* when the body declares the port too
_create_module_from_string_HeaderWins(name, ports_str, code) ==
    {Module(name, Update(_parse_ports_from_body(code), _parse_ports(ports_str)),
            extracted.gates, extracted.nets) :
       extracted \in _extract_gates_and_nets(code, name)}

\* _create_module_from_string: every Module it can return
_create_module_from_string(name, ports_str, code) ==
    {Module(name, Update(_parse_ports(ports_str), _parse_ports_from_body(code)),
            extracted.gates, extracted.nets) :
       extracted \in _extract_gates_and_nets(code, name)}

\* the loop `for module_name, ports_str in modules`: every list of Modules
\* the call can append to self.modules
RECURSIVE CreateModules(_, _)
CreateModules(matches, code) ==
    IF matches = <<>> THEN {<<>>}
    ELSE {<<module>> \o rest :
            module \in _create_module_from_string(Head(matches).groups[1],
                                                  Head(matches).groups[2], code),
            rest \in CreateModules(Tail(matches), code)}

_extract_modules_from_code(verilog_code) ==
    CreateModules(findall(module_pattern, verilog_code, 0), verilog_code)

(***************************************************************************)
(* State                                                                   *)
(***************************************************************************)
VARIABLES
    pc,             \* where the running call stands
    verilog_code,   \* the text parse_file read last
    parser_modules, \* VerilogParser.modules
    input_file,     \* the text of the input file read last
    rejected,       \* number of visualize calls that returned at the input error
    local,          \* what the last local gate simulation did
    modules,        \* LogicSimulator.modules: the list of Module records
    net_value,      \* Module.nets[name].value of every declared Net object
    input_values,   \* LogicSimulator.input_values
    all_nets,       \* the dict all_nets of the running simulate call
    mode,           \* "full" (simulate) or "level" (simulate_by_level)
    max_level,      \* the argument of simulate_by_level
    gate_depths,    \* the dict gate_depths
    net_depths,     \* the dict net_depths of calculate_gate_depths
    round,          \* the index of `for _ in range(5)` in simulate
    mi,             \* index of the module being simulated
    iteration,      \* the pass counter of the running loop
    gi,             \* index of the gate being visited in the pass
    progress_made,  \* the flag progress_made of the running pass
    result,         \* the last returned value map, with how it was made
    prev,           \* the value map returned before result
    clean,          \* every declared Net was X when the running call began
    runs,           \* number of simulation calls begun
    gate,           \* the gate handed to _simulate_gate on its own
    output_values   \* what _simulate_gate returned for it

parser == <<verilog_code, parser_modules>>

loader == <<input_file, rejected>>

vars == <<pc, parser, loader, local, modules, net_value, input_values, all_nets, mode, max_level,
          gate_depths, net_depths, round, mi, iteration, gi, progress_made,
          result, prev, clean, runs, gate, output_values>>

(***************************************************************************)
(* Program constants and bounds                                            *)
(***************************************************************************)
DepthMaxIterations == 100    \* max_iterations of calculate_gate_depths
LevelMaxIterations == 20     \* max_iterations of simulate_by_level
ModuleMaxIterations == 20    \* max_iterations of _simulate_module
SimulateRounds == 5          \* range(5) in simulate

MaxInputs == 6      \* longest input list handed to a gate evaluator
MaxOutputs == 2     \* most outputs of a gate evaluated on its own
MaxLevel == 2       \* largest level asked of simulate_by_level
MaxRuns == 2        \* simulation calls in one behaviour
MaxChain == 101     \* longest linear chain given to the level analyzer
MaxPerm == 3        \* chains up to this length are listed in every order
MaxFiles == 2       \* parse_file calls on one parser

\* no file read yet
NoFile == ""

(***************************************************************************)
(* Level analyzer: calculate_gate_depths                                   *)
(***************************************************************************)
\* the ports of direction input, over all modules
PrimaryInputs(ms) ==
    UNION {{p \in DOMAIN ms[m].ports : ms[m].ports[p] = "input"} : m \in 1..Len(ms)}

\* gate_depths = {}, net_depths[port] = 0 for every primary input
DepthInit(ms) ==
    [gate_depths |-> EmptyMap,
     net_depths |-> [p \in PrimaryInputs(ms) |-> 0],
     progress_made |-> FALSE]

\* the mutant of DepthVisit: a gate with an empty input list gets depth 1
DepthVisit_EmptyInputs(st, g) ==
    IF g.name \in DOMAIN st.gate_depths THEN st
    ELSE LET all_inputs_known ==
                 \A i \in 1..Len(g.inputs) : g.inputs[i] \in DOMAIN st.net_depths
         IN  IF all_inputs_known
             THEN LET gate_depth ==
                          Max({0} \cup {st.net_depths[g.inputs[i]] : i \in 1..Len(g.inputs)}) + 1
                  IN  [gate_depths |-> Put(st.gate_depths, g.name, gate_depth),
                       net_depths |->
                           [n \in DOMAIN st.net_depths \cup Range(g.outputs) |->
                               IF n \in Range(g.outputs) THEN gate_depth
                               ELSE st.net_depths[n]],
                       progress_made |-> TRUE]
             ELSE st

\* the body of `for gate in module.gates`: a gate without a depth gets one
\* when every input net has a depth and the list of them is not empty
DepthVisit(st, g) ==
    IF g.name \in DOMAIN st.gate_depths THEN st
    ELSE LET all_inputs_known ==
                 \A i \in 1..Len(g.inputs) : g.inputs[i] \in DOMAIN st.net_depths
         IN  IF all_inputs_known /\ Len(g.inputs) > 0
             THEN LET gate_depth ==
                          Max({st.net_depths[g.inputs[i]] : i \in 1..Len(g.inputs)}) + 1
                  IN  [gate_depths |-> Put(st.gate_depths, g.name, gate_depth),
                       net_depths |->
                           [n \in DOMAIN st.net_depths \cup Range(g.outputs) |->
                               IF n \in Range(g.outputs) THEN gate_depth
                               ELSE st.net_depths[n]],
                       progress_made |-> TRUE]
             ELSE st

RECURSIVE DepthScan(_, _, _)
DepthScan(gs, i, st) ==
    IF i > Len(gs) THEN st
    ELSE LET visited == DepthVisit(st, gs[i])
         IN  IF visited.progress_made \in BOOLEAN
             THEN DepthScan(gs, i + 1, visited) ELSE visited

\* one pass of the while loop over every gate of every module
DepthPass(ms, st) ==
    DepthScan(FlatGates(ms), 1, [st EXCEPT !.progress_made = FALSE])

RECURSIVE DepthLoop(_, _, _)
DepthLoop(ms, st, it) ==
    IF it < DepthMaxIterations
    THEN LET st2 == DepthPass(ms, st)
         IN  IF st2.progress_made THEN DepthLoop(ms, st2, it + 1) ELSE st2
    ELSE st

\* the returned dict gate_depths
calculate_gate_depths(ms) == DepthLoop(ms, DepthInit(ms), 0).gate_depths

(***************************************************************************)
(* Logic engine: the nets of a run                                         *)
(***************************************************************************)
DeclaredNames(ms) == UNION {ms[m].nets : m \in 1..Len(ms)}

\* all_nets.update(module.nets) module after module: the Net object of the
\* last module that declares a name is the one all_nets holds
Owner(ms, n) == Max({m \in 1..Len(ms) : n \in ms[m].nets})

GateNets(ms) ==
    LET gs == FlatGates(ms)
    IN  UNION {Range(gs[i].inputs) \cup Range(gs[i].outputs) : i \in 1..Len(gs)}

\* the mutant of BuildAllNets: the Net objects made for undeclared nets are
\* kept from the call before instead of being made anew
BuildAllNets_KeepInferred(ms, nv) ==
    [n \in DeclaredNames(ms) \cup GateNets(ms) |->
        IF n \in DeclaredNames(ms) THEN nv[Owner(ms, n)][n]
        ELSE IF n \in DOMAIN result.map THEN result.map[n]
        ELSE X]

\* all_nets as built at the start of simulate and simulate_by_level: the
\* declared Net objects themselves, with the value they hold, and a new Net
\* at X for every gate input or output that is not declared
BuildAllNets(ms, nv) ==
    [n \in DeclaredNames(ms) \cup GateNets(ms) |->
        IF n \in DeclaredNames(ms) THEN nv[Owner(ms, n)][n] ELSE X]

\* `for net_name, value in self.input_values.items()`
ApplyInputValues(nets, iv) ==
    [n \in DOMAIN nets |-> IF n \in DOMAIN iv THEN iv[n] ELSE nets[n]]

\* the declared Net objects after the values of all_nets were written: a
\* declared Net in all_nets is the module's own object
SyncNetObjects(ms, nv, nets) ==
    [m \in 1..Len(ms) |->
        [n \in ms[m].nets |-> IF Owner(ms, n) = m THEN nets[n] ELSE nv[m][n]]]

\* the mutant of StoredValue: the new value is always written
StoredValue_Always(old_value, new_value) == new_value

\* the value an output net holds after the update rule
StoredValue(old_value, new_value) ==
    IF new_value # X THEN new_value
    ELSE IF old_value = X THEN new_value
    ELSE old_value

\* `for i, output_net in enumerate(gate.outputs)`; st = [nets, progress_made]
RECURSIVE UpdateOutputs(_, _, _, _)
UpdateOutputs(g, outs, i, st) ==
    IF i > Len(g.outputs) THEN st
    ELSE LET output_net == g.outputs[i]
         IN  IF output_net \in DOMAIN st.nets /\ i <= Len(outs)
             THEN LET old_value == st.nets[output_net]
                      new_value == outs[i]
                  IN  UpdateOutputs(g, outs, i + 1,
                          [nets |-> [st.nets EXCEPT
                                        ![output_net] = StoredValue(old_value, new_value)],
                           progress_made |->
                               st.progress_made
                               \/ (new_value # X /\ old_value # new_value)])
             ELSE UpdateOutputs(g, outs, i + 1, st)

\* one gate recomputation: evaluate, then update the output nets
EvaluateGate(g, nets, progress) ==
    UpdateOutputs(g, _simulate_gate(g, nets), 1,
                  [nets |-> nets, progress_made |-> progress])

\* the mutant of CoerceUnknown: only the nets some gate drives are coerced
CoerceUnknown_DrivenOnly(nets) ==
    LET gs == FlatGates(modules)
        driven == UNION {Range(gs[i].outputs) : i \in 1..Len(gs)}
    IN  [n \in DOMAIN nets |-> IF nets[n] = X /\ n \in driven THEN ZERO ELSE nets[n]]

\* the final step of simulate: every net still X becomes ZERO
CoerceUnknown(nets) == [n \in DOMAIN nets |-> IF nets[n] = X THEN ZERO ELSE nets[n]]

(***************************************************************************)
(* The netlists the engine is run on                                       *)
(***************************************************************************)
Ports(ins, outs) == [p \in ins \cup outs |-> IF p \in ins THEN "input" ELSE "output"]

\* and G1(a,b -> w); not G2(w -> y); wire w declared
NetChain ==
    <<Module("top", Ports({"a", "b"}, {"y"}),
             <<Gate("G1", "and", <<"a", "b">>, <<"w">>),
               Gate("G2", "not", <<"w">>, <<"y">>)>>,
             {"w"})>>

\* the same chain listed output side first, w not declared
NetChainRev ==
    <<Module("top", Ports({"a", "b"}, {"y"}),
             <<Gate("G2", "not", <<"w">>, <<"y">>),
               Gate("G1", "and", <<"a", "b">>, <<"w">>)>>,
             {})>>

\* a declared wire w and an undeclared net u that nothing drives
NetFloating ==
    <<Module("top", Ports({"a"}, {"y", "z"}),
             <<Gate("G1", "not", <<"w">>, <<"y">>),
               Gate("G2", "not", <<"u">>, <<"z">>),
               Gate("G3", "or", <<"a", "y">>, <<"v">>)>>,
             {"w", "v"})>>

\* an inverter that drives its own primary input
NetOscillator ==
    <<Module("top", Ports({"a"}, {}),
             <<Gate("G1", "not", <<"a">>, <<"a">>)>>,
             {})>>

\* a top module and a library module that both name a net s
NetHier ==
    <<Module("top", Ports({"x", "y"}, {"s"}),
             <<Gate("T1", "and", <<"x", "y">>, <<"w">>),
               Gate("T2", "not", <<"w">>, <<"s">>)>>,
             {"w"}),
      Module("inv", Ports({"i"}, {"s"}),
             <<Gate("L1", "not", <<"i">>, <<"s">>)>>,
             {})>>

\* cross-coupled NOR gates: a combinational cycle
NetLatch ==
    <<Module("top", Ports({"r", "s"}, {"q", "qb"}),
             <<Gate("G1", "nor", <<"r", "qb">>, <<"q">>),
               Gate("G2", "nor", <<"s", "q">>, <<"qb">>)>>,
             {})>>

\* a half adder instance with two outputs, and a module without gates
NetAdder ==
    <<Module("top", Ports({"a", "b"}, {"s", "c"}),
             <<Gate("U1", "ha", <<"a", "b">>, <<"c", "s">>),
               Gate("G2", "xor", <<"c", "s">>, <<"p">>)>>,
             {"p"}),
      Module("empty", Ports({"a"}, {"o"}), <<>>, {"o"})>>

\* module top(input a, input [1:0] X, output y); not G1(.a(X[0]), .y(y));
\* no gate reads a, X or X[1], and no wire is declared
NetSpare ==
    <<Module("top", Ports({"a", "X", "X[0]", "X[1]"}, {"y"}),
             <<Gate("G1", "not", <<"X[0]">>, <<"y">>)>>,
             {})>>

\* a top module and a library half adder that both name the nets a, b and
\* sum
NetShared ==
    <<Module("top", Ports({"a", "b"}, {"sum"}),
             <<Gate("G1", "and", <<"a", "b">>, <<"sum">>)>>,
             {}),
      Module("half_adder", Ports({"a", "b"}, {"sum", "cout"}),
             <<Gate("X1", "xor", <<"a", "b">>, <<"sum">>),
               Gate("A1", "and", <<"a", "b">>, <<"cout">>)>>,
             {})>>

\* a chain of ten inverters from a to y, the odd ones in the second module
\* and the even ones in the first
NetAlternate ==
    <<Module("top", Ports({"a"}, {"y"}),
             <<Gate("G2", "not", <<"n1">>, <<"n2">>),
               Gate("G4", "not", <<"n3">>, <<"n4">>),
               Gate("G6", "not", <<"n5">>, <<"n6">>),
               Gate("G8", "not", <<"n7">>, <<"n8">>),
               Gate("G10", "not", <<"n9">>, <<"y">>)>>,
             {}),
      Module("lib", Ports({"a"}, {}),
             <<Gate("G1", "not", <<"a">>, <<"n1">>),
               Gate("G3", "not", <<"n2">>, <<"n3">>),
               Gate("G5", "not", <<"n4">>, <<"n5">>),
               Gate("G7", "not", <<"n6">>, <<"n7">>),
               Gate("G9", "not", <<"n8">>, <<"n9">>)>>,
             {})>>

Netlists ==
    {NetChain, NetChainRev, NetFloating, NetOscillator, NetHier, NetLatch, NetAdder,
     NetSpare, NetShared, NetAlternate}

\* the ports of direction input of the top-level (first) module
TopInputs(ms) == {p \in DOMAIN ms[1].ports : ms[1].ports[p] = "input"}

\* the input assignments of a run: every top-level input given 0, 1 or X,
\* or no input given at all
Assignments(ms) == [TopInputs(ms) -> LogicValue] \cup {EmptyMap}

UnknownNetObjects(ms) == [m \in 1..Len(ms) |-> [n \in ms[m].nets |-> X]]

NoResult == [mode |-> "none", level |-> 0, clean |-> FALSE, map |-> EmptyMap]

NoGate == Gate("", "", <<>>, <<>>)

\* no local gate simulation made yet
NoLocal == [kind |-> "none", gate |-> "", module |-> "", inputs |-> <<>>, values |-> <<>>]

(***************************************************************************)
(* Logic engine: simulate and simulate_by_level, one gate per step         *)
(***************************************************************************)
ModulesWithGates(ms) == {m \in 1..Len(ms) : Len(ms[m].gates) > 0}

\* the mutant of NextModule: simulate makes one round over the modules
NextModule_OneRound(ms, r, m) ==
    LET later == {k \in ModulesWithGates(ms) : k > m}
    IN  IF later # {} THEN [round |-> r, mi |-> Min(later)]
        ELSE [round |-> 0, mi |-> 0]

\* the module _simulate_module is called on after module m of round r; a
\* module without gates makes one empty pass and returns.  round 0: none left
NextModule(ms, r, m) ==
    LET later == {k \in ModulesWithGates(ms) : k > m}
    IN  IF later # {} THEN [round |-> r, mi |-> Min(later)]
        ELSE IF r < SimulateRounds /\ ModulesWithGates(ms) # {}
        THEN [round |-> r + 1, mi |-> Min(ModulesWithGates(ms))]
        ELSE [round |-> 0, mi |-> 0]

\* the mutant of Eligible: a gate without a depth counts as depth 0
Eligible_DefaultZero(g, depths, level) ==
    (IF g.name \in DOMAIN depths THEN depths[g.name] ELSE 0) <= level

\* gate_depths.get(gate.name, float('inf')) <= max_level
Eligible(g, depths, level) ==
    g.name \in DOMAIN depths /\ depths[g.name] <= level

AllDeclaredUnknown ==
    \A m \in 1..Len(modules) : \A n \in modules[m].nets : net_value[m][n] = X

\* simulate, up to the point where all_nets is built
BeginSimulate ==
    /\ pc = "idle"
    /\ runs < MaxRuns
    /\ all_nets' = BuildAllNets(modules, net_value)
    /\ mode' = "full"
    /\ max_level' = 0
    /\ clean' = AllDeclaredUnknown
    /\ runs' = runs + 1
    /\ pc' = "built"
    /\ UNCHANGED <<parser, loader, local, modules, net_value, input_values, gate_depths, net_depths, round,
                   mi, iteration, gi, progress_made, result, prev, gate, output_values>>

\* simulate_by_level(max_level), up to the point where all_nets is built
BeginSimulateByLevel ==
    /\ pc = "idle"
    /\ runs < MaxRuns
    /\ \E level \in 0..MaxLevel : max_level' = level
    /\ all_nets' = BuildAllNets(modules, net_value)
    /\ mode' = "level"
    /\ clean' = AllDeclaredUnknown
    /\ runs' = runs + 1
    /\ pc' = "built"
    /\ UNCHANGED <<parser, loader, local, modules, net_value, input_values, gate_depths, net_depths, round,
                   mi, iteration, gi, progress_made, result, prev, gate, output_values>>

\* the input assignment is written into all_nets; simulate_by_level then
\* computes the gate depths; the first pass is entered
ApplyInputs ==
    /\ pc = "built"
    /\ LET nets == ApplyInputValues(all_nets, input_values)
       IN  /\ all_nets' = nets
           /\ net_value' = SyncNetObjects(modules, net_value, nets)
    /\ IF mode = "full"
       THEN LET first == NextModule(modules, 1, 0)
            IN  /\ pc' = IF first.round = 0 THEN "coerce" ELSE "run"
                /\ round' = first.round
                /\ mi' = first.mi
                /\ gate_depths' = gate_depths
       ELSE /\ pc' = IF Len(FlatGates(modules)) = 0 THEN "return" ELSE "run"
            /\ round' = 0
            /\ mi' = 0
            /\ gate_depths' = calculate_gate_depths(modules)
    /\ iteration' = 1
    /\ gi' = 1
    /\ progress_made' = FALSE
    /\ UNCHANGED <<parser, loader, local, modules, input_values, mode, max_level, net_depths, result, prev,
                   clean, runs, gate, output_values>>

\* _simulate_module: the body of `for gate in module.gates` for one gate,
\* and what follows it when the gate is the last of its pass
StepGateFull ==
    /\ pc = "run"
    /\ mode = "full"
    /\ LET gs == modules[mi].gates
           st == EvaluateGate(gs[gi], all_nets, progress_made)
           nx == NextModule(modules, round, mi)
       IN  /\ all_nets' = st.nets
           /\ net_value' = SyncNetObjects(modules, net_value, st.nets)
           /\ IF gi < Len(gs)
              THEN /\ gi' = gi + 1
                   /\ progress_made' = st.progress_made
                   /\ UNCHANGED <<pc, round, mi, iteration>>
              ELSE IF st.progress_made /\ iteration < ModuleMaxIterations
              THEN /\ iteration' = iteration + 1
                   /\ gi' = 1
                   /\ progress_made' = FALSE
                   /\ UNCHANGED <<pc, round, mi>>
              ELSE /\ pc' = IF nx.round = 0 THEN "coerce" ELSE "run"
                   /\ round' = nx.round
                   /\ mi' = nx.mi
                   /\ iteration' = 1
                   /\ gi' = 1
                   /\ progress_made' = FALSE
    /\ UNCHANGED <<parser, loader, local, modules, input_values, mode, max_level, gate_depths, net_depths,
                   result, prev, clean, runs, gate, output_values>>

\* simulate_by_level: the body of the gate loops for one gate, and what
\* follows it when the gate is the last of its pass
StepGateLevel ==
    /\ pc = "run"
    /\ mode = "level"
    /\ LET gs == FlatGates(modules)
           st == IF Eligible(gs[gi], gate_depths, max_level)
                 THEN EvaluateGate(gs[gi], all_nets, progress_made)
                 ELSE [nets |-> all_nets, progress_made |-> progress_made]
       IN  /\ all_nets' = st.nets
           /\ net_value' = SyncNetObjects(modules, net_value, st.nets)
           /\ IF gi < Len(gs)
              THEN /\ gi' = gi + 1
                   /\ progress_made' = st.progress_made
                   /\ UNCHANGED <<pc, iteration>>
              ELSE IF st.progress_made /\ iteration < LevelMaxIterations
              THEN /\ iteration' = iteration + 1
                   /\ gi' = 1
                   /\ progress_made' = FALSE
                   /\ UNCHANGED pc
              ELSE /\ pc' = "return"
                   /\ iteration' = 1
                   /\ gi' = 1
                   /\ progress_made' = FALSE
    /\ UNCHANGED <<parser, loader, local, modules, input_values, mode, max_level, gate_depths, net_depths,
                   round, mi, result, prev, clean, runs, gate, output_values>>

\* the end of simulate: the nets still X are set to ZERO, the map is returned
FinishSimulate ==
    /\ pc = "coerce"
    /\ LET nets == CoerceUnknown(all_nets)
       IN  /\ net_value' = SyncNetObjects(modules, net_value, nets)
           /\ result' = [mode |-> "full", level |-> 0, clean |-> clean, map |-> nets]
    /\ prev' = result
    /\ all_nets' = EmptyMap
    /\ round' = 0
    /\ mi' = 0
    /\ pc' = "idle"
    /\ UNCHANGED <<parser, loader, local, modules, input_values, mode, max_level, gate_depths, net_depths,
                   iteration, gi, progress_made, clean, runs, gate, output_values>>

\* the end of simulate_by_level: the map is returned as it stands
FinishSimulateByLevel ==
    /\ pc = "return"
    /\ result' = [mode |-> "level", level |-> max_level, clean |-> clean,
                  map |-> all_nets]
    /\ prev' = result
    /\ all_nets' = EmptyMap
    /\ gate_depths' = EmptyMap
    /\ pc' = "idle"
    /\ UNCHANGED <<parser, loader, local, modules, net_value, input_values, mode, max_level, net_depths,
                   round, mi, iteration, gi, progress_made, clean, runs, gate,
                   output_values>>

\* the caller sets every declared Net back to X between two calls
ResetNets ==
    /\ pc = "idle"
    /\ runs >= 1
    /\ runs < MaxRuns
    /\ ~AllDeclaredUnknown
    /\ net_value' = UnknownNetObjects(modules)
    /\ UNCHANGED <<pc, parser, loader, local, modules, input_values, all_nets, mode, max_level, gate_depths,
                   net_depths, round, mi, iteration, gi, progress_made, result, prev,
                   clean, runs, gate, output_values>>

Init ==
    /\ pc = "idle"
    /\ verilog_code = NoFile
    /\ input_file = NoFile
    /\ rejected = 0
    /\ local = NoLocal
    /\ parser_modules = <<>>
    /\ modules \in Netlists
    /\ net_value = UnknownNetObjects(modules)
    /\ input_values \in Assignments(modules)
    /\ all_nets = EmptyMap
    /\ mode = "none"
    /\ max_level = 0
    /\ gate_depths = EmptyMap
    /\ net_depths = EmptyMap
    /\ round = 0
    /\ mi = 0
    /\ iteration = 1
    /\ gi = 1
    /\ progress_made = FALSE
    /\ result = NoResult
    /\ prev = NoResult
    /\ clean = TRUE
    /\ runs = 0
    /\ gate = NoGate
    /\ output_values = <<>>

Next ==
    \/ BeginSimulate
    \/ BeginSimulateByLevel
    \/ ApplyInputs
    \/ StepGateFull
    \/ StepGateLevel
    \/ FinishSimulate
    \/ FinishSimulateByLevel
    \/ ResetNets

Spec == Init /\ [][Next]_vars

(***************************************************************************)
(* Properties of the logic engine                                          *)
(***************************************************************************)
\* the gate the running pass stands at
CurrentGate ==
    IF mode = "full" THEN modules[mi].gates[gi] ELSE FlatGates(modules)[gi]

\* the gates that list net n among their outputs
Producers(ms, n) ==
    LET gs == FlatGates(ms)
    IN  {gs[i] : i \in {k \in 1..Len(gs) : In(n, gs[k].outputs)}}

\* gate g has a depth, and it is at most level
DepthAtMost(ms, g, level) ==
    LET d == calculate_gate_depths(ms)
    IN  g.name \in DOMAIN d /\ d[g.name] <= level

\* C3: within a run a gate recomputation never sets a net that holds ZERO or
\* ONE back to X, and an output net takes the newly computed value iff that
\* value is not X or the net holds X
C3_ConcreteNeverReverts ==
    [][pc = "run" =>
         LET g == CurrentGate
             outs == _simulate_gate(g, all_nets)
             recomputed == mode = "full" \/ Eligible(g, gate_depths, max_level)
         IN  /\ \A n \in DOMAIN all_nets : all_nets[n] # X => all_nets'[n] # X
             /\ recomputed =>
                  \A i \in 1..Len(g.outputs) :
                     (/\ i <= Len(outs)
                      /\ g.outputs[i] \in DOMAIN all_nets
                      /\ \A j \in 1..Len(g.outputs) : g.outputs[j] = g.outputs[i] => j = i)
                     => all_nets'[g.outputs[i]] =
                           (IF outs[i] # X \/ all_nets[g.outputs[i]] = X
                            THEN outs[i] ELSE all_nets[g.outputs[i]])]_vars

\* C3 witness: a gate is about to be recomputed to X while its output net
\* holds a concrete value
C3_Witness ==
    /\ pc = "run"
    /\ mode = "full" \/ Eligible(CurrentGate, gate_depths, max_level)
    /\ \E i \in 1..Len(CurrentGate.outputs) :
          /\ i <= Len(_simulate_gate(CurrentGate, all_nets))
          /\ _simulate_gate(CurrentGate, all_nets)[i] = X
          /\ all_nets[CurrentGate.outputs[i]] # X

\* C4: two full simulations of the same modules and inputs, each begun with
\* every declared net at X, return the same value map
C4_FullSimulateIdempotent ==
    (/\ pc = "idle"
     /\ prev.mode = "full" /\ prev.clean
     /\ result.mode = "full" /\ result.clean)
    => result.map = prev.map

\* C4 witness: the second of two full simulations has returned, the nets
\* that the first one left concrete having been reset in between
C4_Witness ==
    /\ pc = "idle"
    /\ prev.mode = "full" /\ prev.clean
    /\ result.mode = "full" /\ result.clean
    /\ DeclaredNames(modules) # {}
    /\ \E n \in DOMAIN result.map : result.map[n] = ONE

\* C5: when a run has built all_nets and has not yet applied the input
\* assignment, every net is X
C5_AllUnknownAtStart ==
    pc = "built" => \A n \in DOMAIN all_nets : all_nets[n] = X

\* C6: staged simulation at level L and at level L+1, each begun with every
\* declared net at X, agree on every net that has a producing gate of depth
\* at most L, and no net concrete at level L is X at level L+1
C6_StagedLevelsAgree ==
    (/\ pc = "idle"
     /\ prev.mode = "level" /\ prev.clean
     /\ result.mode = "level" /\ result.clean
     /\ result.level = prev.level + 1)
    => \A n \in DOMAIN prev.map :
          /\ (\E g \in Producers(modules, n) : DepthAtMost(modules, g, prev.level))
                => result.map[n] = prev.map[n]
          /\ prev.map[n] # X => result.map[n] # X

\* C7: every value of the map returned by full simulation is ZERO or ONE
C7_FullResultConcrete ==
    result.mode = "full" => \A n \in DOMAIN result.map : result.map[n] \in {ZERO, ONE}

\* C7 witness: a full simulation returned ZERO for a primary input that was
\* not assigned or was assigned X
C7_Witness ==
    /\ result.mode = "full"
    /\ \E n \in TopInputs(modules) \cap DOMAIN result.map :
          /\ n \notin DOMAIN input_values \/ input_values[n] = X
          /\ result.map[n] = ZERO

\* C8: in a staged simulation begun with every declared net at X, a gate
\* whose depth exceeds the level or that has no depth is never evaluated; a
\* net driven only by such gates and not assigned as an input is X in the
\* returned map; the returned map is all_nets as it stands, nothing coerced
C8_StagedSkipsDeeperGates ==
    /\ [][(pc = "run" /\ mode = "level"
           /\ ~DepthAtMost(modules, CurrentGate, max_level))
          => all_nets' = all_nets]_vars
    /\ [][pc = "return" => result'.map = all_nets]_vars
    /\ []((result.mode = "level" /\ result.clean)
          => \A n \in DOMAIN result.map :
                (/\ n \notin DOMAIN input_values
                 /\ \A g \in Producers(modules, n) :
                       ~DepthAtMost(modules, g, result.level))
                => result.map[n] = X)

\* C8 witness: a staged simulation returned with a net left at X whose only
\* producing gate lies beyond the level, next to a net it resolved
C8_Witness ==
    /\ result.mode = "level" /\ result.clean
    /\ \E n \in DOMAIN result.map :
          /\ Producers(modules, n) # {}
          /\ \A g \in Producers(modules, n) : ~DepthAtMost(modules, g, result.level)
          /\ result.map[n] = X
    /\ \E n \in DOMAIN result.map :
          /\ Producers(modules, n) # {}
          /\ result.map[n] # X

(***************************************************************************)
(* The gate evaluators on their own: _simulate_gate on one gate            *)
(***************************************************************************)
GateTypes ==
    {"and", "or", "not", "nand", "nor", "xor", "xnor", "fa", "ha", "fs", "hs",
     "mux", "mux2", "mux4", "complex", "unknown", "my_cell"}

InputName(i) == "i" \o ToString(i)

OutputName(i) == "o" \o ToString(i)

InitGates ==
    /\ pc = "gate"
    /\ \E t \in GateTypes, k \in 0..MaxInputs, o \in 0..MaxOutputs :
          gate = Gate("g", t, [i \in 1..k |-> InputName(i)],
                      [i \in 1..o |-> OutputName(i)])
    /\ all_nets \in [Range(gate.inputs) -> LogicValue]
    /\ output_values = <<>>
    /\ verilog_code = NoFile
    /\ input_file = NoFile
    /\ rejected = 0
    /\ local = NoLocal
    /\ parser_modules = <<>>
    /\ modules = <<>>
    /\ net_value = <<>>
    /\ input_values = EmptyMap
    /\ mode = "none"
    /\ max_level = 0
    /\ gate_depths = EmptyMap
    /\ net_depths = EmptyMap
    /\ round = 0
    /\ mi = 0
    /\ iteration = 1
    /\ gi = 1
    /\ progress_made = FALSE
    /\ result = NoResult
    /\ prev = NoResult
    /\ clean = TRUE
    /\ runs = 0

\* _simulate_gate(gate, all_nets)
SimulateGate ==
    /\ pc = "gate"
    /\ output_values' = _simulate_gate(gate, all_nets)
    /\ pc' = "evaluated"
    /\ UNCHANGED <<parser, loader, local, modules, net_value, input_values, all_nets, mode, max_level,
                   gate_depths, net_depths, round, mi, iteration, gi, progress_made,
                   result, prev, clean, runs, gate>>

NextGates == SimulateGate

SpecGates == InitGates /\ [][NextGates]_vars

(***************************************************************************)
(* The level analyzer on its own: calculate_gate_depths, one pass per step *)
(***************************************************************************)
ChainNet(i) == "n" \o ToString(i)

ChainGateName(i) == "G" \o ToString(i)

\* gate i of a chain: driven by net i-1 alone, driving net i
ChainGate(i) == Gate(ChainGateName(i), "not", <<ChainNet(i - 1)>>, <<ChainNet(i)>>)

\* a linear chain of N gates behind the primary input n0, listed in the
\* order perm
Chain(N, perm) ==
    <<Module("chain", Ports({ChainNet(0)}, {ChainNet(N)}),
             [k \in 1..N |-> ChainGate(perm[k])], {})>>

\* every listing order of a short chain; of a long one, chain order and its
\* reverse
Orders(N) ==
    IF N <= MaxPerm
    THEN {p \in [1..N -> 1..N] : \A i, j \in 1..N : p[i] = p[j] => i = j}
    ELSE {[k \in 1..N |-> k], [k \in 1..N |-> N + 1 - k]}

Chains == UNION {{Chain(N, p) : p \in Orders(N)} : N \in 1..MaxChain}

\* a net w with two driving gates: G2 drives the net it reads
NetTwoDrivers ==
    <<Module("top", Ports({"a"}, {"y"}),
             <<Gate("G1", "not", <<"a">>, <<"w">>),
               Gate("G2", "not", <<"w">>, <<"w">>),
               Gate("G3", "not", <<"w">>, <<"y">>)>>,
             {"w"})>>

\* a primary input a that a gate drives as well
NetDrivenInput ==
    <<Module("top", Ports({"a", "b"}, {"y"}),
             <<Gate("G1", "not", <<"b">>, <<"a">>),
               Gate("G2", "not", <<"a">>, <<"y">>)>>,
             {})>>

\* a gate with an empty input list in front of an inverter
NetNoInputs ==
    <<Module("top", Ports({"a"}, {"y", "z"}),
             <<Gate("G1", "and", <<>>, <<"w">>),
               Gate("G2", "not", <<"w">>, <<"y">>),
               Gate("G3", "not", <<"a">>, <<"z">>)>>,
             {"w"})>>

\* a ring of two inverters behind a gate that reads the ring and an input
NetRing ==
    <<Module("top", Ports({"a"}, {"y"}),
             <<Gate("G1", "not", <<"p">>, <<"q">>),
               Gate("G2", "not", <<"q">>, <<"p">>),
               Gate("G3", "and", <<"a", "p">>, <<"y">>)>>,
             {"p", "q"})>>

\* the gates of a module listed in another order
GateOrders(mod) ==
    {[mod EXCEPT !.gates = [k \in 1..Len(mod.gates) |-> mod.gates[p[k]]]] :
        p \in Orders(Len(mod.gates))}

\* the same modules and gates, scanned in another order
Reorderings(ms) ==
    {r \in [1..Len(ms) -> UNION {GateOrders(ms[k]) : k \in 1..Len(ms)}] :
        \E p \in Orders(Len(ms)) : \A k \in 1..Len(ms) : r[k] \in GateOrders(ms[p[k]])}

DepthNetlists ==
    UNION {Reorderings(ms) :
              ms \in Netlists \cup {NetTwoDrivers, NetDrivenInput, NetNoInputs, NetRing}}

InitDepth ==
    /\ pc = "idle"
    /\ verilog_code = NoFile
    /\ input_file = NoFile
    /\ rejected = 0
    /\ local = NoLocal
    /\ parser_modules = <<>>
    /\ modules \in Chains \cup DepthNetlists
    /\ net_value = UnknownNetObjects(modules)
    /\ input_values = EmptyMap
    /\ all_nets = EmptyMap
    /\ mode = "none"
    /\ max_level = 0
    /\ gate_depths = EmptyMap
    /\ net_depths = EmptyMap
    /\ round = 0
    /\ mi = 0
    /\ iteration = 0
    /\ gi = 1
    /\ progress_made = FALSE
    /\ result = NoResult
    /\ prev = NoResult
    /\ clean = TRUE
    /\ runs = 0
    /\ gate = NoGate
    /\ output_values = <<>>

\* calculate_gate_depths up to the while loop
BeginDepths ==
    /\ pc = "idle"
    /\ gate_depths' = DepthInit(modules).gate_depths
    /\ net_depths' = DepthInit(modules).net_depths
    /\ iteration' = 0
    /\ progress_made' = FALSE
    /\ pc' = IF 0 < DepthMaxIterations THEN "depth" ELSE "depth_done"
    /\ UNCHANGED <<parser, loader, local, modules, net_value, input_values, all_nets, mode, max_level,
                   round, mi, gi, result, prev, clean, runs, gate, output_values>>

\* the mutant of DepthPassStep: the loop goes on after a pass without
\* progress
DepthPassStep_NoStop ==
    /\ pc = "depth"
    /\ LET st == DepthPass(modules,
                           [gate_depths |-> gate_depths, net_depths |-> net_depths,
                            progress_made |-> progress_made])
       IN  /\ gate_depths' = st.gate_depths
           /\ net_depths' = st.net_depths
           /\ progress_made' = st.progress_made
           /\ iteration' = iteration + 1
           /\ pc' = IF iteration + 1 < DepthMaxIterations THEN "depth" ELSE "depth_done"
    /\ UNCHANGED <<parser, loader, local, modules, net_value, input_values, all_nets, mode, max_level,
                   round, mi, gi, result, prev, clean, runs, gate, output_values>>

\* one pass of the while loop, and the loop's exit tests
DepthPassStep ==
    /\ pc = "depth"
    /\ LET st == DepthPass(modules,
                           [gate_depths |-> gate_depths, net_depths |-> net_depths,
                            progress_made |-> progress_made])
       IN  /\ gate_depths' = st.gate_depths
           /\ net_depths' = st.net_depths
           /\ progress_made' = st.progress_made
           /\ iteration' = iteration + 1
           /\ pc' = IF st.progress_made /\ iteration + 1 < DepthMaxIterations
                    THEN "depth" ELSE "depth_done"
    /\ UNCHANGED <<parser, loader, local, modules, net_value, input_values, all_nets, mode, max_level,
                   round, mi, gi, result, prev, clean, runs, gate, output_values>>

NextDepth ==
    \/ BeginDepths
    \/ DepthPassStep

SpecDepth == InitDepth /\ [][NextDepth]_vars

(***************************************************************************)
(* Parsing: parse_file on one parser, file after file                      *)
(***************************************************************************)
Headers ==
    {"module m(input a, input b, output y);",
     "module m(a, b, y);",
     "module m(input [1:0] a, output y);"}

Statements ==
    {" and G1(a,b,y);",
     " and G1 (.a(a), .b(b), .Y(y));",
     " or G1(a, w);",
     " my_and U2(a, b, y);",
     " full_adder U1(.a(a), .b(b), .cin(w), .sum(y), .cout(c));",
     " assign y = a & b;",
     " wire w,v;",
     " input a, b;",
     " output [1:0] y;",
     " output a;"}

\* bodies in which two constructs give one instance name
Clashes ==
    {" or G1(a, w); and G1(a,b,y);", " and assign_y(a,b,w); assign y = a & b;",
     " and y(a,b,w); assign y = a & b;"}

\* bodies with one sub-circuit instance
Instances ==
    {" full_subtractor U1(.a(a), .b(b), .bin(w), .diff(y), .bout(c));",
     " HalfAdder U1(a,b,c);", " cell U1(.a(a), .y(y));",
     " Mux U1(.a(a), .b(b), .s(w), .y(y));",
     " cell U3(.OUT(y), .z(w), .d(a), .Q(v), .co(c), .sel(b), .bo(d));"}

Bodies ==
    {""} \cup Statements \cup Clashes \cup Instances
        \cup {s \o t : s \in {" and G1(a,b,y);", " assign y = a & b;"}, t \in Statements}

\* a module of primitives, as a library file or the tail of a design holds
Library == "module lib(input i, output s); not L1(.a(i), .y(s)); endmodule"

Endings == {" endmodule", "", " endmodule " \o Library}

\* the texts of the design files: the first file given to parse_file
Designs == {h \o b \o e : h \in Headers, b \in Bodies, e \in Endings}

\* the texts of the files given after the design
Libraries ==
    {Library,
     "module m(a, b);\n  input a;\n  output b;\n  wire w;\n  not G1 (w, a);\nendmodule\n"}

\* the texts parse_file can be given as its call number n
Files(n) == IF n = 1 THEN Designs ELSE Libraries

\* parse_file(filename) of a file that opens: the modules found are
\* appended to self.modules, and self.modules is what the caller receives
ParseFile ==
    /\ pc = "idle"
    /\ runs < MaxFiles
    /\ \E code \in Files(runs + 1) : \E found \in _extract_modules_from_code(code) :
          /\ verilog_code' = code
          /\ parser_modules' = parser_modules \o found
    /\ modules' = parser_modules'
    /\ net_value' = UnknownNetObjects(modules')
    /\ runs' = runs + 1
    /\ UNCHANGED <<pc, loader, local, input_values, all_nets, mode, max_level, gate_depths,
                   net_depths, round, mi, iteration, gi, progress_made, result, prev, clean,
                   gate, output_values>>

\* parse_file(filename) of a file that cannot be read: the caller receives []
ParseFileError ==
    /\ pc = "idle"
    /\ runs < MaxFiles
    /\ modules' = <<>>
    /\ net_value' = UnknownNetObjects(modules')
    /\ runs' = runs + 1
    /\ UNCHANGED <<pc, parser, loader, local, input_values, all_nets, mode, max_level, gate_depths,
                   net_depths, round, mi, iteration, gi, progress_made, result, prev,
                   clean, gate, output_values>>

InitParse ==
    /\ pc = "idle"
    /\ verilog_code = NoFile
    /\ input_file = NoFile
    /\ rejected = 0
    /\ local = NoLocal
    /\ parser_modules = <<>>
    /\ modules = <<>>
    /\ net_value = <<>>
    /\ input_values = EmptyMap
    /\ all_nets = EmptyMap
    /\ mode = "none"
    /\ max_level = 0
    /\ gate_depths = EmptyMap
    /\ net_depths = EmptyMap
    /\ round = 0
    /\ mi = 0
    /\ iteration = 1
    /\ gi = 1
    /\ progress_made = FALSE
    /\ result = NoResult
    /\ prev = NoResult
    /\ clean = TRUE
    /\ runs = 0
    /\ gate = NoGate
    /\ output_values = <<>>

NextParse ==
    \/ ParseFile
    \/ ParseFileError

SpecParse == InitParse /\ [][NextParse]_vars

(***************************************************************************)
(* Properties of the gate evaluators                                       *)
(***************************************************************************)
\* the truth tables as the specification words them
TableAnd(iv) ==
    IF \E i \in 1..Len(iv) : iv[i] = ZERO THEN ZERO
    ELSE IF \E i \in 1..Len(iv) : iv[i] = X THEN X
    ELSE ONE

TableOr(iv) ==
    IF \E i \in 1..Len(iv) : iv[i] = ONE THEN ONE
    ELSE IF \E i \in 1..Len(iv) : iv[i] = X THEN X
    ELSE ZERO

TableNot(v) == CASE v = ZERO -> ONE [] v = ONE -> ZERO [] OTHER -> X

TableXor(iv) ==
    IF \E i \in 1..Len(iv) : iv[i] = X THEN X
    ELSE IF Cardinality({i \in 1..Len(iv) : iv[i] = ONE}) % 2 = 1 THEN ONE
    ELSE ZERO

\* the values on the inputs of the gate evaluated on its own
GivenInputs == [i \in 1..Len(gate.inputs) |-> all_nets[gate.inputs[i]]]

Bit(v) == IF v = ONE THEN 1 ELSE 0

FromBit(b) == IF b = 1 THEN ONE ELSE ZERO

AllBinary(iv) == \A i \in 1..Len(iv) : iv[i] \in {ZERO, ONE}

\* C1: for every list of two or three tri-state inputs AND, OR, XOR, NAND,
\* NOR, XNOR return the value of the truth table, and NOT inverts its input
\* and keeps X
C1_PrimitiveTruthTables ==
    (pc = "evaluated" /\ Len(gate.inputs) \in {2, 3}) =>
        LET iv == GivenInputs
            t == gate.gate_type
        IN  /\ t = "and" => output_values = <<TableAnd(iv)>>
            /\ t = "or" => output_values = <<TableOr(iv)>>
            /\ t = "xor" => output_values = <<TableXor(iv)>>
            /\ t = "nand" => output_values = <<TableNot(TableAnd(iv))>>
            /\ t = "nor" => output_values = <<TableNot(TableOr(iv))>>
            /\ t = "xnor" => output_values = <<TableNot(TableXor(iv))>>
            /\ t = "not" => output_values = <<TableNot(iv[1])>>

\* C1 witness: an AND of an unknown and a ZERO input was evaluated to ZERO
C1_Witness ==
    /\ pc = "evaluated"
    /\ gate.gate_type = "and"
    /\ GivenInputs = <<X, ZERO>>
    /\ output_values = <<ZERO>>

\* C2: on 0/1 inputs the adders and subtractors return the arithmetic
\* sum/carry and difference/borrow, and on every tri-state input they and
\* the multiplexers equal the stated compositions of the primitives
C2_CompoundGates ==
    pc = "evaluated" =>
        LET iv == GivenInputs
            t == gate.gate_type
            n == Len(iv)
        IN  /\ (t = "fa" /\ n = 3) =>
                 /\ output_values =
                       <<TableOr(<<TableAnd(<<iv[1], iv[2]>>),
                                   TableAnd(<<iv[2], iv[3]>>),
                                   TableAnd(<<iv[1], iv[3]>>)>>),
                         TableXor(iv)>>
                 /\ AllBinary(iv) =>
                       LET total == Bit(iv[1]) + Bit(iv[2]) + Bit(iv[3])
                       IN  output_values =
                              <<FromBit(IF total >= 2 THEN 1 ELSE 0), FromBit(total % 2)>>
            /\ (t = "ha" /\ n = 2) =>
                 /\ output_values = <<TableAnd(iv), TableXor(iv)>>
                 /\ AllBinary(iv) =>
                       LET total == Bit(iv[1]) + Bit(iv[2])
                       IN  output_values =
                              <<FromBit(IF total >= 2 THEN 1 ELSE 0), FromBit(total % 2)>>
            /\ (t = "hs" /\ n = 2) =>
                 /\ output_values =
                       <<TableAnd(<<TableNot(iv[1]), iv[2]>>), TableXor(iv)>>
                 /\ AllBinary(iv) =>
                       output_values =
                          <<FromBit(IF Bit(iv[1]) < Bit(iv[2]) THEN 1 ELSE 0),
                            FromBit((2 + Bit(iv[1]) - Bit(iv[2])) % 2)>>
            /\ (t = "fs" /\ n = 3) =>
                 /\ output_values =
                       <<TableOr(<<TableAnd(<<TableNot(iv[1]), iv[2]>>),
                                   TableAnd(<<TableNot(iv[1]), iv[3]>>),
                                   TableAnd(<<iv[2], iv[3]>>)>>),
                         TableXor(iv)>>
                 /\ AllBinary(iv) =>
                       output_values =
                          <<FromBit(IF Bit(iv[1]) < Bit(iv[2]) + Bit(iv[3]) THEN 1 ELSE 0),
                            FromBit((2 + Bit(iv[1]) - Bit(iv[2]) - Bit(iv[3])) % 2)>>
            /\ (t \in {"mux", "mux2"} /\ n = 3) =>
                 output_values =
                    <<TableOr(<<TableAnd(<<TableNot(iv[3]), iv[1]>>),
                                TableAnd(<<iv[3], iv[2]>>)>>)>>
            /\ (t = "mux4" /\ n = 6) =>
                 output_values =
                    <<TableOr(<<TableAnd(<<TableNot(iv[5]), TableNot(iv[6]), iv[1]>>),
                                TableAnd(<<TableNot(iv[5]), iv[6], iv[2]>>),
                                TableAnd(<<iv[5], TableNot(iv[6]), iv[3]>>),
                                TableAnd(<<iv[5], iv[6], iv[4]>>)>>)>>

\* C2 witness: a full adder with a = 1, b unknown, cin = 1 was evaluated to
\* carry ONE and sum X
C2_Witness ==
    /\ pc = "evaluated"
    /\ gate.gate_type = "fa"
    /\ GivenInputs = <<ONE, X, ONE>>
    /\ output_values = <<ONE, X>>

(***************************************************************************)
(* Properties of the level analyzer                                        *)
(***************************************************************************)
IsChain == Len(modules) = 1 /\ modules[1].name = "chain"

ChainLength == Len(modules[1].gates)

\* C9: in a linear chain of N gates gate i gets depth exactly i, for every
\* N and every listing order
C9_ChainDepthAnyLength ==
    (pc = "depth_done" /\ IsChain) =>
        \A i \in 1..ChainLength :
           /\ ChainGateName(i) \in DOMAIN gate_depths
           /\ gate_depths[ChainGateName(i)] = i

\* what the analyzer does reach on a chain: gate i gets depth exactly i for
\* every i up to its 100 passes, in every listing order; a gate further
\* down the chain gets depth i or no depth
C9_ChainDepthWithinPasses ==
    (pc = "depth_done" /\ IsChain) =>
        \A i \in 1..ChainLength :
           /\ i <= DepthMaxIterations =>
                 /\ ChainGateName(i) \in DOMAIN gate_depths
                 /\ gate_depths[ChainGateName(i)] = i
           /\ ChainGateName(i) \in DOMAIN gate_depths =>
                 gate_depths[ChainGateName(i)] = i

\* C9 witness: the analyzer finished on a chain of more than 100 gates
\* listed output side first, gate 100 at depth 100 and gate 101 left out
C9_Witness ==
    /\ pc = "depth_done"
    /\ IsChain
    /\ ChainLength > DepthMaxIterations
    /\ modules[1].gates[1].name = ChainGateName(ChainLength)
    /\ gate_depths[ChainGateName(DepthMaxIterations)] = DepthMaxIterations
    /\ ChainGateName(DepthMaxIterations + 1) \notin DOMAIN gate_depths

\* the depth map the analyzer returns when the gates and modules are
\* listed in the order r
DepthsOf(r) == calculate_gate_depths(r)

\* C21: the returned depth map is the one every other listing order of the
\* same gates and modules gives, also when a net has several driving gates
\* or a primary-input net is driven by a gate
C21_DepthsAnyOrder ==
    (pc = "depth_done" /\ ~IsChain) =>
        \A r \in Reorderings(modules) : DepthsOf(r) = gate_depths

\* every net has at most one driving gate and no gate drives a primary input
SingleDrivers(ms) ==
    LET gs == FlatGates(ms)
    IN  /\ \A i, j \in 1..Len(gs) :
              i # j => Range(gs[i].outputs) \cap Range(gs[j].outputs) = {}
        /\ \A i \in 1..Len(gs) : Range(gs[i].outputs) \cap PrimaryInputs(ms) = {}

\* what the analyzer does give: the same depth map in every listing order
\* when every net has at most one driver and no primary input is driven
C21_DepthsAnyOrderSingleDrivers ==
    (pc = "depth_done" /\ ~IsChain /\ SingleDrivers(modules)) =>
        \A r \in Reorderings(modules) : DepthsOf(r) = gate_depths

\* C21 witness: G3 reads the twice driven net w and was scanned before the
\* second driver G2: it has depth 2, and depth 3 in the order G1, G2, G3
C21_Witness ==
    /\ pc = "depth_done"
    /\ modules \in Reorderings(NetTwoDrivers)
    /\ modules[1].gates[2].name = "G3"
    /\ gate_depths["G3"] = 2
    /\ DepthsOf(NetTwoDrivers)["G3"] = 3

\* a primary input that a gate drives: the reader G2 scanned first has
\* depth 1, scanned second depth 2
C21_DrivenInput ==
    /\ pc = "depth_done"
    /\ modules \in Reorderings(NetDrivenInput)
    /\ modules[1].gates[1].name = "G2"
    /\ gate_depths["G2"] = 1
    /\ DepthsOf(NetDrivenInput)["G2"] = 2

(***************************************************************************)
(* Properties of the parser                                                *)
(***************************************************************************)
PositionalAnd == "module m(input a, input b, output y); and G1(a,b,y); endmodule"

\* C10: parsing module m(input a, input b, output y) with the one instance
\* and G1(a,b,y); gives one Module with ports a: input, b: input, y: output
\* and one Gate G1 of type and with inputs [a, b] and outputs [y]
C10_PositionalAndGate ==
    (runs = 1 /\ verilog_code = PositionalAnd) =>
        /\ Len(modules) = 1
        /\ modules[1].ports = Ports({"a", "b"}, {"y"})
        /\ Len(modules[1].gates) = 1
        /\ modules[1].gates[1].name = "G1"
        /\ modules[1].gates[1].gate_type = "and"
        /\ modules[1].gates[1].inputs = <<"a", "b">>
        /\ modules[1].gates[1].outputs = <<"y">>

\* C10 witness: the text was parsed into one Module with the ports of the
\* header and the gate G1 of type and, its three connections all inputs
C10_Witness ==
    /\ runs = 1
    /\ verilog_code = PositionalAnd
    /\ Len(modules) = 1
    /\ modules[1].ports = Ports({"a", "b"}, {"y"})
    /\ Len(modules[1].gates) = 1
    /\ modules[1].gates[1].name = "G1"
    /\ modules[1].gates[1].gate_type = "and"
    /\ modules[1].gates[1].inputs = <<"a", "b", "y">>
    /\ modules[1].gates[1].outputs = <<>>


\* the first file was read and parsed, and its text has no endmodule
ParsedWithoutEnd ==
    runs = 1 /\ verilog_code # NoFile /\ ~Contains(verilog_code, "endmodule")

\* C11 as claimed: a module text without endmodule gives a Module whose
\* gate list and net map are empty
C11_EmptyWithoutEnd ==
    ParsedWithoutEnd =>
        /\ Len(modules) = 1
        /\ modules[1].gates = <<>>
        /\ modules[1].nets = {}

\* C11 as amended: a module text without endmodule gives a Module (nothing
\* is raised), and it is the Module the same text gives with endmodule
\* added at its end: the body runs to the end of the text
C11_BodyRunsToEnd ==
    ParsedWithoutEnd =>
        /\ Len(modules) = 1
        /\ modules \in _extract_modules_from_code(verilog_code \o " endmodule")

\* C11 witness: a text without endmodule was parsed into one Module that
\* has a gate and a declared net
C11_Witness ==
    /\ ParsedWithoutEnd
    /\ Len(modules) = 1
    /\ modules[1].gates # <<>>
    /\ modules[1].nets # {}


(***************************************************************************)
(* The input file: step 2 of visualize and the loader of the bit string    *)
(***************************************************************************)

\* the characters of port names and bit strings, in the order of their codes
Ascii == "\t\n\r 0123456789:ABCDEFGHIJKLMNOPQRSTUVWXYZ[]_abcdefghijklmnopqrstuvwxyz"

\* a < b on str
Less(a, b) ==
    \E i \in 0..Min({Len(a), Len(b)}) :
        /\ Slice(a, 0, i) = Slice(b, 0, i)
        /\ i < Len(b)
        /\ i < Len(a) => find(Ascii, Char(a, i), 0) < find(Ascii, Char(b, i), 0)

\* sorted(names)
RECURSIVE sorted(_)
sorted(S) ==
    IF S = {} THEN <<>>
    ELSE LET first == CHOOSE a \in S : \A b \in S : a = b \/ Less(a, b)
         IN  <<first>> \o sorted(S \ {first})

isdigit(s) == s # "" /\ CharsOf(s) \subseteq Digit

\* key=lambda x: int(x) if x.isdigit() else 999
IndexKey(x) == IF isdigit(x) THEN int(x) ELSE 999

\* sorted(indices, key=..., reverse=True); the lists given here hold no two
\* indices of one key
RECURSIVE indices_desc(_)
indices_desc(S) ==
    IF S = {} THEN <<>>
    ELSE LET first == CHOOSE a \in S : \A b \in S : IndexKey(b) <= IndexKey(a)
         IN  <<first>> \o indices_desc(S \ {first})

\* the ports visualize takes for array elements
ArrayElements(ports) ==
    {port \in DOMAIN ports :
        ports[port] = "input" /\ Contains(port, "[") /\ Contains(port, "]")}

base_name(port) == split(port, "[")[1]

bit_index(port) == split(split(port, "[")[2], "]")[1]

\* visualize, first pass: base name -> bit indices
array_ports(ports) ==
    [base \in {base_name(port) : port \in ArrayElements(ports)} |->
        {bit_index(port) : port \in {p \in ArrayElements(ports) : base_name(p) = base}}]

\* visualize, second pass
single_bit_inputs(ports) ==
    {port \in DOMAIN ports :
        /\ ports[port] = "input"
        /\ ~(Contains(port, "[") /\ Contains(port, "]"))
        /\ port \notin DOMAIN array_ports(ports)}

total_bits_needed(arrays, singles) ==
    Cardinality(UNION {{<<base, i>> : i \in arrays[base]} : base \in DOMAIN arrays})
        + Cardinality(singles)

\* the keys the loader writes for one array, in the order it writes them
ArrayKeys(base, indices) ==
    [n \in 1..Len(indices) |->
        base \o "[" \o ToString(IF isdigit(indices[n]) THEN int(indices[n]) ELSE 0) \o "]"]

\* the keys the loader writes, in the order it reads their bits
RECURSIVE LoadOrder(_, _, _)
LoadOrder(arrays, bases, singles) ==
    IF bases = <<>> THEN sorted(singles)
    ELSE ArrayKeys(bases[1], indices_desc(arrays[bases[1]]))
            \o LoadOrder(arrays, Tail(bases), singles)


\* content[n - 1] for the last n that writes key k
LoadedValues(content, keys) ==
    [k \in Range(keys) |->
        LET last == Max({n \in 1..Len(keys) : keys[n] = k})
        IN  IF Char(content, last - 1) = "0" THEN ZERO ELSE ONE]

\* the returned dict; {} is EmptyMap
_load_input_values_from_file_hierarchical(text, arrays, singles, total) ==
    LET content == Remove(strip(text), {" ", "\n", "\r"})
    IN  IF Len(content) # total THEN EmptyMap
        ELSE IF CharsOf(content) \subseteq {"0", "1"}
             THEN LoadedValues(content, LoadOrder(arrays, sorted(DOMAIN arrays), singles))
             ELSE EmptyMap

\* what visualize hands to set_inputs for the top module and the file text
LoadFor(ports, text) ==
    _load_input_values_from_file_hierarchical(
        text, array_ports(ports), single_bit_inputs(ports),
        total_bits_needed(array_ports(ports), single_bit_inputs(ports)))

MaxBits == 3        \* bit strings up to this length are all given
MaxRejected == 1    \* rejected requests counted

RECURSIVE BitStrings(_)
BitStrings(n) ==
    IF n = 0 THEN {""} ELSE {b \o c : b \in BitStrings(n - 1), c \in {"0", "1"}}

\* texts of input files
InputFiles ==
    UNION {BitStrings(n) : n \in 0..MaxBits}
        \cup {"101101", "010010", "111111", "110100", "10110", "01001", "11100"}
        \cup {" 10 11\n01\n", "1\t01101", "101101\t", "\n", "x", "1x", "10x101", "1 0",
              "0\r\n1", "2", "10110 1", "1011012"}

\* the designs whose top module is given input files
LoadDesigns ==
    {"module m(input [4:0] X, input cin, output y); endmodule",
     "module m(input b, input a, output y); and G1(.a(a), .b(b), .y(y)); endmodule",
     "module m(input [1:0] B, input [1:0] A, input c, output y); endmodule",
     "module m(a, y); input [1:0] a; output y; endmodule",
     "module m(output y); assign y = y; endmodule",
     "module m(input a, input B, output y); endmodule",
     "module m(input a, output y); lib U1(.i(a), .s(y)); endmodule " \o Library}

\* a run of visualize on the design, up to the end of step 2: the input file
\* is read for the top module; without an assignment the call returns,
\* with one a simulator is made and set_inputs is given the assignment
ConfigureInputs ==
    /\ pc \in {"idle", "failed", "simulated"}
    /\ \E text \in InputFiles :
        LET loaded == LoadFor(modules[1].ports, text)
        IN  /\ input_file' = text
            /\ input_values' = loaded
            /\ IF loaded = EmptyMap
               THEN /\ pc' = "failed"
                    /\ rejected' = Min({rejected + 1, MaxRejected})
               ELSE /\ pc' = "configured"
                    /\ UNCHANGED rejected
    /\ all_nets' = EmptyMap
    /\ mode' = "none"
    /\ UNCHANGED <<parser, local, modules, net_value, max_level, gate_depths, net_depths,
                   round, mi, iteration, gi, progress_made, result, prev, clean, runs,
                   gate, output_values>>

\* visualize, step 3: the simulation of the chosen mode is entered with the
\* assignment loaded
RunSimulation ==
    /\ pc = "configured"
    /\ pc' = "simulated"
    /\ \E m \in {"full", "level"} : mode' = m
    /\ all_nets' = ApplyInputValues(BuildAllNets(modules, net_value), input_values)
    /\ UNCHANGED <<parser, loader, local, modules, net_value, input_values, max_level, gate_depths,
                   net_depths, round, mi, iteration, gi, progress_made, result, prev,
                   clean, runs, gate, output_values>>

InitLoad ==
    /\ pc = "idle"
    /\ verilog_code \in LoadDesigns
    /\ modules \in _extract_modules_from_code(verilog_code)
    /\ parser_modules = modules
    /\ input_file = NoFile
    /\ rejected = 0
    /\ local = NoLocal
    /\ net_value = UnknownNetObjects(modules)
    /\ input_values = EmptyMap
    /\ all_nets = EmptyMap
    /\ mode = "none"
    /\ max_level = 0
    /\ gate_depths = EmptyMap
    /\ net_depths = EmptyMap
    /\ round = 0
    /\ mi = 0
    /\ iteration = 1
    /\ gi = 1
    /\ progress_made = FALSE
    /\ result = NoResult
    /\ prev = NoResult
    /\ clean = TRUE
    /\ runs = 0
    /\ gate = NoGate
    /\ output_values = <<>>

NextLoad ==
    \/ ConfigureInputs
    \/ RunSimulation

SpecLoad == InitLoad /\ [][NextLoad]_vars


(***************************************************************************)
(* Properties of the input file                                            *)
(***************************************************************************)

\* the primary inputs of the top module that take a bit: the indexed
\* elements and the inputs that are no base name of an array
PrimaryInputBits(ports) == ArrayElements(ports) \cup single_bit_inputs(ports)

\* p takes its bit before q: elements before scalars, elements by ascending
\* base name and descending index, scalars by ascending name
Precedes(p, q) ==
    IF Contains(p, "[") # Contains(q, "[") THEN Contains(p, "[")
    ELSE IF ~Contains(p, "[") THEN Less(p, q)
    ELSE \/ Less(base_name(p), base_name(q))
         \/ /\ base_name(p) = base_name(q)
            /\ IndexKey(bit_index(p)) > IndexKey(bit_index(q))

RECURSIVE PortOrder(_)
PortOrder(S) ==
    IF S = {} THEN <<>>
    ELSE LET first == CHOOSE p \in S : \A q \in S : p = q \/ Precedes(p, q)
         IN  <<first>> \o PortOrder(S \ {first})

\* the bit string of the input file read last
BitString == Remove(strip(input_file), {" ", "\n", "\r"})

\* the n-th port of the order gets the n-th character
OrderedValues(order, bits) ==
    [p \in Range(order) |->
        LET n == CHOOSE i \in 1..Len(order) : order[i] = p
        IN  IF Char(bits, n - 1) = "0" THEN ZERO ELSE ONE]

NumericIndices(ports) == \A p \in ArrayElements(ports) : isdigit(bit_index(p))

\* C12: once a bit string is loaded, the assignment gives the bits, left to
\* right, to the elements of the array inputs (ascending base name, highest
\* index first) and then to the scalar inputs (ascending name)
C12_LoadOrder ==
    pc = "configured" =>
        input_values = OrderedValues(PortOrder(PrimaryInputBits(modules[1].ports)), BitString)

\* C12 for top modules whose indexed ports all carry a number as index
C12_LoadOrderNumericIndices ==
    (pc = "configured" /\ NumericIndices(modules[1].ports)) =>
        input_values = OrderedValues(PortOrder(PrimaryInputBits(modules[1].ports)), BitString)

\* X[4:0] and cin with "101101"
C12_Witness ==
    /\ pc = "configured"
    /\ input_file = "101101"
    /\ PrimaryInputBits(modules[1].ports) = {"X[4]", "X[3]", "X[2]", "X[1]", "X[0]", "cin"}
    /\ input_values = [p \in {"X[4]", "X[3]", "X[2]", "X[1]", "X[0]", "cin"} |->
                          IF p \in {"X[3]", "X[0]"} THEN ZERO ELSE ONE]

\* the vector declared in the module body
C12_BodyVector ==
    /\ pc = "configured"
    /\ Contains(verilog_code, "input [1:0] a;")
    /\ DOMAIN input_values = {"[0]"}


\* the bit string of the text has the wrong length for the ports or a
\* character other than 0 and 1
InvalidFor(ports, text) ==
    LET bits == Remove(strip(text), {" ", "\n", "\r"})
    IN  \/ Len(bits) # Cardinality(PrimaryInputBits(ports))
        \/ ~(CharsOf(bits) \subseteq {"0", "1"})

InvalidVector == InvalidFor(modules[1].ports, input_file)

Requested == pc \in {"failed", "configured", "simulated"}

\* the run ended at the input error: no assignment, no simulation
Aborted == pc = "failed" /\ input_values = EmptyMap /\ all_nets = EmptyMap /\ mode = "none"

\* the run got an assignment for every primary input bit
Accepted ==
    /\ pc \in {"configured", "simulated"}
    /\ Cardinality(DOMAIN input_values) = Cardinality(PrimaryInputBits(modules[1].ports))

\* C13: a request with an invalid vector is aborted with an empty assignment
\* and without a simulation, a request that is not aborted has an assignment
\* for every primary input bit, and the request after an aborted one is
\* aborted only when its own vector is invalid
C13_RejectedThenAccepted ==
    /\ [](Requested /\ InvalidVector => Aborted)
    /\ [](Requested /\ ~Aborted => Accepted)
    /\ [][(pc = "failed" /\ pc' = "failed") => InvalidFor(modules[1].ports, input_file')]_vars

\* C13 for top modules with at least one primary input bit
C13_WithPrimaryInputs ==
    /\ [](Requested /\ InvalidVector => Aborted)
    /\ [](Requested /\ ~Aborted => Accepted)
    /\ [][(pc = "failed" /\ pc' = "failed" /\ PrimaryInputBits(modules[1].ports) # {})
            => InvalidFor(modules[1].ports, input_file')]_vars

\* a valid vector is accepted after a request was rejected
C13_Witness == rejected > 0 /\ Accepted /\ pc = "simulated"

\* the top module has no primary input: the empty vector is rejected
C13_NoInputs ==
    /\ PrimaryInputBits(modules[1].ports) = {}
    /\ input_file = ""
    /\ Aborted


(***************************************************************************)
(* Properties of the gate evaluation on any tag and any input list         *)
(***************************************************************************)

\* the tags _simulate_gate knows
KnownTags ==
    {"and", "or", "not", "nand", "nor", "xor", "xnor", "fa", "ha", "fs", "hs",
     "mux", "mux2", "mux4", "complex"}

IsValueList(values) ==
    /\ DOMAIN values = 1..Len(values)
    /\ \A i \in 1..Len(values) : values[i] \in LogicValue

\* C14: for every tag and every list of tri-state inputs, shorter than the
\* arity of the gate included, the evaluation returns a list of values; for
\* a tag that is not known it is the AND of the inputs when there are
\* inputs and ZERO for each declared output when there are none
C14_GateEvaluationTotal ==
    pc = "evaluated" =>
        /\ IsValueList(output_values)
        /\ gate.gate_type \notin KnownTags =>
              output_values = IF Len(gate.inputs) > 0
                              THEN <<TableAnd(GivenInputs)>>
                              ELSE [i \in 1..Len(gate.outputs) |-> ZERO]

\* a gate of an unknown tag with a ZERO and an X input was evaluated
C14_Witness ==
    /\ pc = "evaluated"
    /\ gate.gate_type = "my_cell"
    /\ Len(gate.inputs) = 2
    /\ all_nets[gate.inputs[1]] = X
    /\ all_nets[gate.inputs[2]] = ZERO
    /\ output_values = <<ZERO>>

\* a full adder with two inputs and an unknown tag without inputs were
\* evaluated
C14_WitnessShort ==
    /\ pc = "evaluated"
    /\ \/ gate.gate_type = "fa" /\ Len(gate.inputs) = 2 /\ output_values = <<X, X>>
       \/ gate.gate_type = "unknown" /\ Len(gate.inputs) = 0 /\ Len(gate.outputs) = 2
                /\ output_values = <<ZERO, ZERO>>


(***************************************************************************)
(* Properties of the returned value map                                    *)
(***************************************************************************)

PortNames(ms) == UNION {DOMAIN ms[m].ports : m \in 1..Len(ms)}

Returned == result.mode \in {"full", "level"}

\* C15: the value map returned by simulate and by simulate_by_level has an
\* entry for every declared net and every port name of the modules, the
\* indexed port names included, also for a port that no gate reads or
\* drives and no wire declaration names
C15_MapCoversPorts ==
    Returned => (DeclaredNames(modules) \cup PortNames(modules)) \subseteq DOMAIN result.map

\* the entries of the returned map are the declared nets and the inputs
\* and outputs of the gates
C15_MapCoversNets ==
    Returned => DOMAIN result.map = DeclaredNames(modules) \cup GateNets(modules)

\* a map was returned for a module with the ports a, X and X[1] that no gate
\* uses: it has the entries X[0] and y only
C15_Witness ==
    /\ Returned
    /\ {"a", "X", "X[1]"} \subseteq PortNames(modules)
    /\ DOMAIN result.map = {"X[0]", "y"}


(***************************************************************************)
(* Properties of the port map                                              *)
(***************************************************************************)

\* one file was parsed and its first module is modules[1]
ParsedDesign == runs = 1 /\ verilog_code # NoFile /\ Len(modules) > 0

\* the ports the header of the first module declares
HeaderPorts == _parse_ports(findall(module_pattern, verilog_code, 0)[1].groups[2])

\* the ports the body-style declarations give
BodyPorts == _parse_ports_from_body(verilog_code)

\* the names both declare, with different directions
Conflicts == {p \in DOMAIN HeaderPorts \cap DOMAIN BodyPorts : HeaderPorts[p] # BodyPorts[p]}

ModuleBody ==
    LET name == findall(module_pattern, verilog_code, 0)[1].groups[1]
        module_start == find(verilog_code, "module " \o name, 0)
        begin == find(verilog_code, "begin", module_start)
        body_start == IF begin = -1 THEN find(verilog_code, ";", module_start) + 1 ELSE begin
        endmodule == find(verilog_code, "endmodule", body_start)
    IN  Slice(verilog_code, body_start, IF endmodule = -1 THEN Len(verilog_code) ELSE endmodule)

Keywords == {gate_patterns[k][1] : k \in 1..Len(gate_patterns)}

\* the instances written in the body: where each starts, its name, and the
\* tag of its type; a keyword counts where no longer type name holds it
Occurrences ==
    UNION {{[start |-> m.start, name |-> m.groups[1], gate_type |-> gate_patterns[k][2]] :
                m \in {n \in Range(findall(keyword_pattern(gate_patterns[k][1]), ModuleBody, 0)) :
                          n.start = 0 \/ Char(ModuleBody, n.start - 1) \notin WordChar}} :
            k \in 1..Len(gate_patterns)}
      \cup {[start |-> m.start, name |-> m.groups[2],
             gate_type |-> gate_type_mapping(m.groups[1])] :
                m \in {n \in Range(findall(instance_pattern, ModuleBody, 0)) :
                          n.groups[1] \notin Keywords}}

\* the names that instances at several places of the body carry
SharedNames ==
    {o.name : o \in {p \in Occurrences : \E q \in Occurrences :
                                            q.name = p.name /\ q.start # p.start}}

\* the occurrences of a name that no other occurrence of it precedes
FirstOccurrences(name) ==
    {o \in Occurrences :
        o.name = name /\ \A p \in Occurrences : p.name = name => o.start <= p.start}

UniqueNames(gates) ==
    \A i, j \in 1..Len(gates) : gates[i].name = gates[j].name => i = j

\* C17: no two gates of the module have one name, and the gate of a name
\* that several instances carry is the one written first in the body
C17_FirstOccurrenceWins ==
    ParsedDesign =>
        /\ UniqueNames(modules[1].gates)
        /\ \A i \in 1..Len(modules[1].gates) :
              modules[1].gates[i].name \in SharedNames =>
                  \A o \in FirstOccurrences(modules[1].gates[i].name) :
                      modules[1].gates[i].gate_type = o.gate_type

\* the gates that are no assign gates have different names
C17_UniqueInstanceNames ==
    ParsedDesign =>
        \A i, j \in 1..Len(modules[1].gates) :
            (modules[1].gates[i].name = modules[1].gates[j].name /\ i # j) =>
                \E k \in {i, j} : /\ StartsWith(modules[1].gates[k].name, 0, "assign_")
                                  /\ Contains(ModuleBody, "assign ")

\* `or G1` is written before `and G1`: the one gate G1 is the and gate
C17_Witness ==
    /\ ParsedDesign
    /\ Contains(verilog_code, " or G1(a, w); and G1(a,b,y);")
    /\ Len(modules[1].gates) = 1
    /\ modules[1].gates[1].name = "G1"
    /\ modules[1].gates[1].gate_type = "and"

\* an instance named assign_y and an assign to y: two gates named assign_y
C17_TwoGatesOneName ==
    /\ ParsedDesign
    /\ Len(modules[1].gates) = 2
    /\ modules[1].gates[1].name = "assign_y"
    /\ modules[1].gates[2].name = "assign_y"


\* the text of the first module, up to its endmodule
FirstModuleText ==
    LET endmodule == find(verilog_code, "endmodule", 0)
    IN  Slice(verilog_code, 0, IF endmodule = -1 THEN Len(verilog_code) ELSE endmodule)

\* the declarations `direction [msb:lsb] name` of the first module, in its
\* header and in its body
DeclaredRanges ==
    {m \in Range(findall(port_pattern, FirstModuleText, 0)) : m.groups[2] # ""}

\* the indices of a declared range
Indices(m) ==
    {i \in 0..Max({int(m.groups[2]), int(m.groups[3])}) :
        i >= Min({int(m.groups[2]), int(m.groups[3])})}

Indexed(name, i) == name \o "[" \o ToString(i) \o "]"

\* the port keys of the form base[i]
IndexedKeys(ports) ==
    {k \in DOMAIN ports :
        /\ Contains(k, "[")
        /\ isdigit(bit_index(k))
        /\ k = base_name(k) \o "[" \o bit_index(k) \o "]"}

InHeader(m) == m.start < find(verilog_code, ";", 0)

\* C18: every port key base[i] has the key base with the same direction,
\* and a range declared in the header or in the body gives one key per
\* index between its bounds and the key of the base name
C18_RangesExpand ==
    ParsedDesign =>
        LET ports == modules[1].ports
        IN  /\ \A k \in IndexedKeys(ports) :
                  base_name(k) \in DOMAIN ports /\ ports[base_name(k)] = ports[k]
            /\ \A m \in DeclaredRanges :
                  /\ m.groups[4] \in DOMAIN ports
                  /\ \A i \in Indices(m) : Indexed(m.groups[4], i) \in DOMAIN ports

\* a range declared in the header gives one key per index, with the
\* direction of the declaration, and the key of the base name
C18_HeaderRangesExpand ==
    ParsedDesign =>
        \A m \in {r \in DeclaredRanges : InHeader(r)} :
            /\ m.groups[4] \in DOMAIN modules[1].ports
            /\ \A i \in Indices(m) :
                  /\ Indexed(m.groups[4], i) \in DOMAIN modules[1].ports
                  /\ modules[1].ports[Indexed(m.groups[4], i)] = m.groups[1]

\* body `output [1:0] y;`: the keys are `[1:0] y` and the empty name, y[1]
\* and y[0] are no keys
C18_Witness ==
    /\ ParsedDesign
    /\ \E m \in DeclaredRanges : ~InHeader(m) /\ m.groups[4] = "y"
    /\ {"[1:0] y", ""} \subseteq DOMAIN modules[1].ports
    /\ {"y[0]", "y[1]"} \cap DOMAIN modules[1].ports = {}

\* header `input [1:0] a`, body `output a;`: a[0] is an input, a an output
C18_BaseDirectionDiffers ==
    /\ ParsedDesign
    /\ {"a", "a[0]"} \subseteq DOMAIN modules[1].ports
    /\ modules[1].ports["a[0]"] = "input"
    /\ modules[1].ports["a"] = "output"


(***************************************************************************)
(* Properties of the gate types                                            *)
(***************************************************************************)

\* the tag the type name of a sub-circuit instance stands for
TagOf(module_type) ==
    CASE module_type \in {"full_adder", "FullAdder"} -> "fa"
      [] module_type \in {"half_adder", "HalfAdder"} -> "ha"
      [] module_type \in {"full_subtractor", "FullSubtractor"} -> "fs"
      [] module_type \in {"half_subtractor", "HalfSubtractor"} -> "hs"
      [] module_type \in {"mux2", "Mux"} -> "mux2"
      [] module_type = "mux4" -> "mux4"
      [] OTHER -> module_type

\* the sub-circuit instances of the body: `type name (...);` with a type
\* that is no keyword of a primitive, under a name no other instance has
SubCircuits ==
    {m \in Range(findall(instance_pattern, ModuleBody, 0)) :
        m.groups[1] \notin Keywords /\ m.groups[2] \notin SharedNames}

\* a keyword of a primitive ends the type name
EndsInKeyword(module_type) ==
    \E k \in Keywords :
        /\ Len(k) < Len(module_type)
        /\ Slice(module_type, Len(module_type) - Len(k), Len(module_type)) = k

\* C19: a sub-circuit instance is a gate under its instance name whose tag
\* is fa, ha, fs, hs, mux2 or mux4 for the type names of the table and the
\* type name itself for any other type; no keyword of a primitive is
\* matched inside the type name
C19_InstanceTags ==
    ParsedDesign =>
        \A m \in SubCircuits :
            \E i \in 1..Len(modules[1].gates) :
                /\ modules[1].gates[i].name = m.groups[2]
                /\ modules[1].gates[i].gate_type = TagOf(m.groups[1])

\* C19 for the type names that do not end in the keyword of a primitive
C19_TagsWithoutKeyword ==
    ParsedDesign =>
        \A m \in {n \in SubCircuits : ~EndsInKeyword(n.groups[1])} :
            \E i \in 1..Len(modules[1].gates) :
                /\ modules[1].gates[i].name = m.groups[2]
                /\ modules[1].gates[i].gate_type = TagOf(m.groups[1])

\* the instance U1 of full_subtractor is an or gate
C19_Witness ==
    /\ ParsedDesign
    /\ \E m \in SubCircuits : m.groups[1] = "full_subtractor" /\ m.groups[2] = "U1"
    /\ Len(modules[1].gates) = 1
    /\ modules[1].gates[1].name = "U1"
    /\ modules[1].gates[1].gate_type = "or"

\* the instance U2 of my_and is an and gate
C19_KeywordInTypeName ==
    /\ ParsedDesign
    /\ \E m \in SubCircuits : m.groups[1] = "my_and" /\ m.groups[2] = "U2"
    /\ \E i \in 1..Len(modules[1].gates) :
          modules[1].gates[i].name = "U2" /\ modules[1].gates[i].gate_type = "and"


(***************************************************************************)
(* Properties of the connections                                           *)
(***************************************************************************)

\* the connections of a connection list, each without the blanks around it
ConnectionTexts(connections) ==
    [i \in 1..Len(split(connections, ",")) |-> strip(split(connections, ",")[i])]

\* .port(net)
IsNamed(conn) == re_match(named_pattern, conn).ok

IsPositional(conn) == ~Contains(conn, ".")

PortOf(conn) == re_match(named_pattern, conn).groups[1]

NetOf(conn) == IF IsNamed(conn) THEN strip(re_match(named_pattern, conn).groups[2]) ELSE conn

IsOutputConnection(conn) ==
    /\ IsNamed(conn)
    /\ lower(PortOf(conn)) \in {"y", "out", "z", "q", "sum", "cout", "diff", "bout", "s", "co", "bo"}

IsInputConnection(conn) == IsPositional(conn) \/ (IsNamed(conn) /\ ~IsOutputConnection(conn))

Nets(conns) == [i \in 1..Len(conns) |-> NetOf(conns[i])]

\* the instances of the body whose name no other instance has
SingleInstances ==
    {m \in Range(findall(instance_pattern, ModuleBody, 0)) : m.groups[2] \notin SharedNames}

\* C20: the first gate of an instance's name has as outputs the nets of the named
\* connections whose port name, in lower case, is one of y, out, z, q, sum,
\* cout, diff, bout, s, co, bo, and as inputs the nets of the other named
\* connections and every positional connection, all in source order; its
\* port map holds the named connections
C20_ConnectionClasses ==
    ParsedDesign =>
        \A m \in SingleInstances : \A i \in 1..Len(modules[1].gates) :
            (/\ modules[1].gates[i].name = m.groups[2]
             /\ \A j \in 1..(i - 1) : modules[1].gates[j].name # m.groups[2]) =>
                LET conns == ConnectionTexts(m.groups[3])
                    g == modules[1].gates[i]
                IN  /\ g.outputs = Nets(SelectSeq(conns, IsOutputConnection))
                    /\ g.inputs = Nets(SelectSeq(conns, IsInputConnection))
                    /\ DOMAIN g.port_map = {PortOf(conns[k]) : k \in {n \in 1..Len(conns) : IsNamed(conns[n])}}
                    /\ \A k \in 1..Len(conns) :
                          IsNamed(conns[k]) => NetOf(conns[k]) = g.port_map[PortOf(conns[k])]

\* an instance with the named connections OUT, z, Q, co, bo, d and sel
C20_Witness ==
    /\ ParsedDesign
    /\ \E m \in SingleInstances : m.groups[2] = "U3"
    /\ \E i \in 1..Len(modules[1].gates) :
          /\ modules[1].gates[i].name = "U3"
          /\ modules[1].gates[i].outputs = <<"y", "w", "v", "c", "d">>
          /\ modules[1].gates[i].inputs = <<"a", "b">>

\* a primitive with positional connections: all of them are inputs
C20_WitnessPositional ==
    /\ ParsedDesign
    /\ \E m \in SingleInstances : m.groups[2] = "G1" /\ m.groups[3] = "a,b,y"
    /\ \E i \in 1..Len(modules[1].gates) :
          /\ modules[1].gates[i].name = "G1"
          /\ modules[1].gates[i].inputs = <<"a", "b", "y">>
          /\ modules[1].gates[i].outputs = <<>>


(***************************************************************************)
(* Properties of one pass of the level analyzer                            *)
(***************************************************************************)
\* the gate at position j of the scan got its depth in the pass that took
\* the depth map gd to gd2
AssignedInPass(gs, j, gd, gd2) ==
    gs[j].name \notin DOMAIN gd /\ gs[j].name \in DOMAIN gd2

\* the gates scanned before position i that got a depth in the pass and
\* drive net n
DriversBefore(gs, i, n, gd, gd2) ==
    {j \in 1..(i - 1) : AssignedInPass(gs, j, gd, gd2) /\ In(n, gs[j].outputs)}

\* net n has a depth when the scan reaches position i
KnownAt(gs, i, n, nd, gd, gd2) ==
    n \in DOMAIN nd \/ DriversBefore(gs, i, n, gd, gd2) # {}

\* the depth of net n when the scan reaches position i
DepthAt(gs, i, n, nd, gd, gd2) ==
    IF DriversBefore(gs, i, n, gd, gd2) # {}
    THEN gd2[gs[Max(DriversBefore(gs, i, n, gd, gd2))].name]
    ELSE nd[n]

AllInputsKnown(gs, i, nd, gd, gd2) ==
    \A n \in Range(gs[i].inputs) : KnownAt(gs, i, n, nd, gd, gd2)

\* the gate at position i has 1 + the maximum of its input depths, and its
\* output nets have that depth unless a gate scanned later drives them too
DepthFromInputs(gs, i, nd, nd2, gd, gd2) ==
    /\ gd2[gs[i].name] =
          1 + Max({DepthAt(gs, i, n, nd, gd, gd2) : n \in Range(gs[i].inputs)})
    /\ \A o \in Range(gs[i].outputs) :
          /\ o \in DOMAIN nd2
          /\ (\A j \in (i + 1)..Len(gs) :
                 ~(AssignedInPass(gs, j, gd, gd2) /\ In(o, gs[j].outputs)))
                => nd2[o] = gd2[gs[i].name]

\* the gates have different names
DistinctNames(gs) == \A i, j \in 1..Len(gs) : gs[i].name = gs[j].name => i = j

\* the step is one pass of the while loop
IsDepthPass(before, after) == before = "depth" /\ after # "idle"

\* C22: in a pass a gate without a depth gets one exactly when every input
\* net has a depth at its visit, a gate with an empty input list included;
\* the depth is 1 + the maximum of the input depths, the primary inputs of
\* all modules are at depth 0, and the output nets take the gate's depth
C22_AssignedWhenInputsKnown ==
    [][/\ (pc = "idle" /\ pc' # "idle") =>
             \A p \in PrimaryInputs(modules) : p \in DOMAIN net_depths' /\ net_depths'[p] = 0
       /\ (IsDepthPass(pc, pc') /\ iteration' = iteration + 1
             /\ DistinctNames(FlatGates(modules))) =>
             \A i \in 1..Len(FlatGates(modules)) :
                FlatGates(modules)[i].name \notin DOMAIN gate_depths =>
                   /\ AssignedInPass(FlatGates(modules), i, gate_depths, gate_depths')
                        <=> AllInputsKnown(FlatGates(modules), i, net_depths,
                                           gate_depths, gate_depths')
                   /\ AssignedInPass(FlatGates(modules), i, gate_depths, gate_depths')
                        => DepthFromInputs(FlatGates(modules), i, net_depths, net_depths',
                                           gate_depths, gate_depths')]_vars

\* what the analyzer does: the gate also has to have an input; a gate with
\* an empty input list never gets a depth
C22_AssignedWhenInputsKnownNotEmpty ==
    [][/\ (pc = "idle" /\ pc' # "idle") =>
             \A p \in PrimaryInputs(modules) : p \in DOMAIN net_depths' /\ net_depths'[p] = 0
       /\ (IsDepthPass(pc, pc') /\ iteration' = iteration + 1
             /\ DistinctNames(FlatGates(modules))) =>
             \A i \in 1..Len(FlatGates(modules)) :
                FlatGates(modules)[i].name \notin DOMAIN gate_depths =>
                   /\ AssignedInPass(FlatGates(modules), i, gate_depths, gate_depths')
                        <=> (/\ Len(FlatGates(modules)[i].inputs) > 0
                             /\ AllInputsKnown(FlatGates(modules), i, net_depths,
                                               gate_depths, gate_depths'))
                   /\ AssignedInPass(FlatGates(modules), i, gate_depths, gate_depths')
                        => DepthFromInputs(FlatGates(modules), i, net_depths, net_depths',
                                           gate_depths, gate_depths')]_vars

\* C22 witness: the analyzer finished on the netlist with the gate G1
\* without inputs: G3 behind the primary input has depth 1 and its output
\* net z too, G1 and its reader G2 have none
C22_Witness ==
    /\ pc = "depth_done"
    /\ modules \in Reorderings(NetNoInputs)
    /\ "G3" \in DOMAIN gate_depths /\ gate_depths["G3"] = 1
    /\ net_depths["z"] = 1 /\ net_depths["a"] = 0
    /\ "G1" \notin DOMAIN gate_depths
    /\ "G2" \notin DOMAIN gate_depths

\* a gate two levels deep got its depth in the pass that gave its driver one
C22_SamePass ==
    /\ pc = "depth_done"
    /\ modules = NetChain
    /\ iteration = 2
    /\ gate_depths = [G1 |-> 1, G2 |-> 2]


(***************************************************************************)
(* Properties of the end of the level analyzer                             *)
(***************************************************************************)
MaxSearch == 4      \* netlists up to this many gates are searched for cycles

\* the gates of C feed each other in a ring: every one of them reads a net
\* that is no primary input and that only gates of C drive
ClosedRing(gs, inputs, C) ==
    /\ C # {}
    /\ \A i \in C :
          \E n \in Range(gs[i].inputs) :
             /\ n \notin inputs
             /\ \E j \in C : In(n, gs[j].outputs)
             /\ \A j \in 1..Len(gs) : In(n, gs[j].outputs) => j \in C

\* the positions of the gates on a combinational cycle whose nets have no
\* other driver and are no primary inputs
OnCycle(gs, inputs) ==
    IF Len(gs) > MaxSearch THEN {}
    ELSE UNION {C \in SUBSET (1..Len(gs)) : ClosedRing(gs, inputs, C)}

\* the nets driven by a gate that has a depth in gd
DrivenWithDepth(gs, gd) ==
    UNION {Range(gs[j].outputs) : j \in {k \in 1..Len(gs) : gs[k].name \in DOMAIN gd}}

\* the positions of the gates with an input net that is no primary input
\* and that no gate with a depth in gd drives
Starved(gs, inputs, gd) ==
    {i \in 1..Len(gs) : Range(gs[i].inputs) \ (inputs \cup DrivenWithDepth(gs, gd)) # {}}

NoDepthOnCycle ==
    \A i \in OnCycle(FlatGates(modules), PrimaryInputs(modules)) :
       FlatGates(modules)[i].name \notin DOMAIN gate_depths

NoDepthWhenStarved ==
    (pc = "depth_done" /\ DistinctNames(FlatGates(modules))) =>
        \A i \in Starved(FlatGates(modules), PrimaryInputs(modules), gate_depths) :
           FlatGates(modules)[i].name \notin DOMAIN gate_depths

PassesWithinBudget ==
    /\ iteration <= DepthMaxIterations
    /\ (pc = "depth" /\ iteration > 0) => progress_made
    /\ pc = "depth_done" => (~progress_made \/ iteration = DepthMaxIterations)

\* C23: the depth computation ends on every netlist, after at most 100
\* passes and at the first pass in which no gate gained a depth: the pass
\* counter grows by one with every pass and never exceeds 100, and a pass
\* is followed by another pass or by the return; a gate on a
\* cycle whose nets have no other driver and are no primary inputs, and a
\* gate with an input net that is neither a primary input nor driven by a
\* gate with a depth, have no depth
C23_DepthTerminates ==
    /\ []PassesWithinBudget
    /\ [][(pc = "depth" /\ gate_depths' = gate_depths) => pc' = "depth_done"]_vars
    /\ [][pc = "depth" =>
             (iteration' = iteration + 1 /\ pc' \in {"depth", "depth_done"})]_vars
    /\ []NoDepthOnCycle
    /\ []NoDepthWhenStarved

\* C23 witness: the analyzer ended after one pass on the ring of two
\* inverters, with no depth for the ring gates nor for the gate reading it
C23_Witness ==
    /\ pc = "depth_done"
    /\ modules \in Reorderings(NetRing)
    /\ iteration = 1
    /\ ~progress_made
    /\ OnCycle(FlatGates(modules), PrimaryInputs(modules)) # {}
    /\ Cardinality(Starved(FlatGates(modules), PrimaryInputs(modules), gate_depths)) = 3
    /\ gate_depths = EmptyMap

\* the analyzer ended with its 100 passes used up, the last one with
\* progress
C23_BudgetUsedUp ==
    /\ pc = "depth_done"
    /\ iteration = DepthMaxIterations
    /\ progress_made
    /\ \E i \in 1..Len(FlatGates(modules)) :
          FlatGates(modules)[i].name \notin DOMAIN gate_depths


(***************************************************************************)
(* Properties of the pass budgets of the logic engine                      *)
(***************************************************************************)
\* the gates the running pass goes over
PassGates == IF mode = "full" THEN modules[mi].gates ELSE FlatGates(modules)

\* the pass counter and the round counter stay within their budgets
WithinBudgets ==
    pc = "run" =>
        /\ iteration \in 1..20
        /\ gi \in 1..Len(PassGates)
        /\ mode = "full" => round \in 1..5

\* a step inside a pass moves to the next gate of the pass
InsidePass ==
    (pc = "run" /\ gi < Len(PassGates)) =>
        /\ pc' = "run" /\ gi' = gi + 1
        /\ iteration' = iteration /\ round' = round /\ mi' = mi
        /\ progress_made' <=> (progress_made \/ all_nets' # all_nets)

\* the step of the last gate of a pass
EndOfPass ==
    (pc = "run" /\ gi = Len(PassGates)) =>
        IF (progress_made \/ all_nets' # all_nets) /\ iteration < 20
        THEN /\ pc' = "run" /\ gi' = 1 /\ iteration' = iteration + 1
             /\ round' = round /\ mi' = mi
        ELSE IF mode = "level" THEN pc' = "return"
        ELSE IF \E k \in (mi + 1)..Len(modules) : Len(modules[k].gates) > 0
        THEN /\ pc' = "run" /\ gi' = 1 /\ iteration' = 1 /\ round' = round
             /\ mi' > mi /\ Len(modules[mi'].gates) > 0
             /\ \A k \in (mi + 1)..(mi' - 1) : Len(modules[k].gates) = 0
        ELSE IF round < 5
        THEN /\ pc' = "run" /\ gi' = 1 /\ iteration' = 1 /\ round' = round + 1
             /\ Len(modules[mi'].gates) > 0
             /\ \A k \in 1..(mi' - 1) : Len(modules[k].gates) = 0
        ELSE pc' = "coerce"

\* the return of the value map
ReturnsReached ==
    pc \in {"coerce", "return"} =>
        /\ pc' = "idle"
        /\ DOMAIN result'.map = DOMAIN all_nets
        /\ \A n \in DOMAIN all_nets : all_nets[n] # X => result'.map[n] = all_nets[n]

\* C24: value propagation ends: a step inside a pass moves to the next gate;
\* at the end of a pass the next pass of the same scope follows iff a net
\* value changed in the pass and fewer than 20 passes were made; otherwise
\* staged simulation returns, and full simulation goes to the next module,
\* to the next of its 5 rounds, or returns after the fifth; the counters
\* stay within the budgets, no step fails, and the returned map holds the
\* values reached
C24_PropagationEnds ==
    /\ []WithinBudgets
    /\ [][InsidePass]_vars
    /\ [][EndOfPass]_vars
    /\ [][ReturnsReached]_vars

\* C24 witness: the inverter that drives its own input has changed its net
\* in every pass; the twentieth pass of the fifth round of a full
\* simulation is at its end
C24_Witness ==
    /\ pc = "run"
    /\ mode = "full"
    /\ modules = NetOscillator
    /\ round = 5
    /\ iteration = 20
    /\ gi = Len(PassGates)
    /\ all_nets["a"] # X

\* the twentieth pass of a staged simulation of the same inverter
C24_StagedBudget ==
    /\ pc = "run"
    /\ mode = "level"
    /\ modules = NetOscillator
    /\ iteration = 20
    /\ all_nets["a"] # X

\* a full simulation of the inverter has returned
C24_Returned ==
    /\ pc = "idle"
    /\ modules = NetOscillator
    /\ result.mode = "full"
    /\ result.map["a"] # X
    /\ input_values # EmptyMap
    /\ input_values["a"] # X


(***************************************************************************)
(* Hierarchical drill-down: _prompt_for_local_gate_simulation after the    *)
(* main simulation of visualize                                            *)
(***************************************************************************)
\* one pass of `for gate in module.gates` of _simulate_module
RECURSIVE ModulePass(_, _, _)
ModulePass(gs, i, st) ==
    IF i > Len(gs) THEN st
    ELSE LET done == EvaluateGate(gs[i], st.nets, st.progress_made)
         IN  IF done.progress_made \in BOOLEAN THEN ModulePass(gs, i + 1, done) ELSE done

\* _simulate_module after it passes: the values of all_nets it leaves
RECURSIVE ModulePasses(_, _, _)
ModulePasses(gs, nets, it) ==
    IF it < ModuleMaxIterations
    THEN LET st == ModulePass(gs, 1, [nets |-> nets, progress_made |-> FALSE])
         IN  IF st.progress_made THEN ModulePasses(gs, st.nets, it + 1) ELSE st.nets
    ELSE nets

\* `for _ in range(5): for module in self.modules`, from module m of round r
RECURSIVE Rounds(_, _, _, _)
Rounds(ms, r, m, nets) ==
    IF r > SimulateRounds THEN nets
    ELSE IF m > Len(ms) THEN Rounds(ms, r + 1, 1, nets)
    ELSE LET after == ModulePasses(ms[m].gates, nets, 0)
         IN  IF DOMAIN after = DOMAIN nets THEN Rounds(ms, r, m + 1, after) ELSE after

\* simulate as one function: the map it returns for the modules ms, the
\* values nv of their declared Net objects and the input assignment iv
simulate(ms, nv, iv) ==
    CoerceUnknown(Rounds(ms, 1, 1, ApplyInputValues(BuildAllNets(ms, nv), iv)))

\* the module names the drill-down accepts for a gate type
DefinitionNames(gate_type) ==
    {gate_type}
        \cup (IF gate_type = "fa" THEN {"full_adder", "FullAdder"} ELSE {})
        \cup (IF gate_type = "ha" THEN {"half_adder", "HalfAdder"} ELSE {})
        \cup (IF gate_type = "fs" THEN {"full_subtractor", "FullSubtractor"} ELSE {})
        \cup (IF gate_type = "hs" THEN {"half_subtractor", "HalfSubtractor"} ELSE {})

\* the index of the first module the loop `for module in modules` stops at,
\* 0 when it stops at none
target_module_def(ms, gate_type) ==
    LET found == {k \in 1..Len(ms) : ms[k].name \in DefinitionNames(gate_type)}
    IN  IF found = {} THEN 0 ELSE Min(found)

\* is_input of a port of the instance
is_input(ports, port_name) ==
    \/ port_name \in DOMAIN ports /\ ports[port_name] = "input"
    \/ /\ split(port_name, "[")[1] \in DOMAIN ports
       /\ ports[split(port_name, "[")[1]] = "input"

\* sub_input_values: the value of the connected net for every input port
sub_input_values(ports, port_map, net_values) ==
    [port_name \in {p \in DOMAIN port_map : is_input(ports, p)} |->
        IF port_map[port_name] \in DOMAIN net_values
        THEN net_values[port_map[port_name]] ELSE ZERO]

\* the gate named gate_name: the first of all gates, NoGate when there is none
target_gate(ms, gate_name) ==
    LET found == {i \in 1..Len(FlatGates(ms)) : FlatGates(ms)[i].name = gate_name}
    IN  IF found = {} THEN NoGate ELSE FlatGates(ms)[Min(found)]

\* the declared Net objects after the simulation of the module at index k
\* on its own
SubNetObjects(ms, nv, k, nets) ==
    [m \in 1..Len(ms) |->
        IF m = k THEN [n \in ms[m].nets |-> nets[n]] ELSE nv[m]]

\* what one round of the loop does for the gate g and the definition at
\* index k: the record of the round and the declared Net objects after it
LocalRound(ms, nv, net_values, g, k) ==
    IF k # 0 /\ g.port_map # EmptyMap
    THEN LET given == sub_input_values(ms[k].ports, g.port_map, net_values)
             sub_net_values == simulate(<<ms[k]>>, <<nv[k]>>, given)
         IN  [local |-> [kind |-> "sub", gate |-> g.name, module |-> ms[k].name,
                         inputs |-> given, values |-> sub_net_values],
              net_value |-> SubNetObjects(ms, nv, k, sub_net_values)]
    ELSE [local |-> [kind |-> "primitive", gate |-> g.name, module |-> "",
                     inputs |-> EmptyMap, values |-> net_values],
          net_value |-> nv]

\* the names asked for: the gates of the design and a name no gate has
GateNames(ms) == {FlatGates(ms)[i].name : i \in 1..Len(FlatGates(ms))} \cup {"nope"}

\* visualize, step 3 in full mode: the main simulation
MainSimulation ==
    /\ pc = "idle"
    /\ result = NoResult
    /\ LET net_values == simulate(modules, net_value, input_values)
       IN  /\ result' = [mode |-> "full", level |-> 0, clean |-> TRUE, map |-> net_values]
           /\ net_value' = SyncNetObjects(modules, net_value, net_values)
    /\ pc' = IF simulate(modules, net_value, input_values) = EmptyMap
             THEN "idle" ELSE "simulated"
    /\ UNCHANGED <<parser, loader, local, modules, input_values, all_nets, mode, max_level,
                   gate_depths, net_depths, round, mi, iteration, gi, progress_made, prev,
                   clean, runs, gate, output_values>>

\* one round of the loop of _prompt_for_local_gate_simulation with the
\* answer y and a gate name
LocalGateSimulation ==
    /\ pc = "simulated"
    /\ \E gate_name \in GateNames(modules) :
          IF target_gate(modules, gate_name) = NoGate
          THEN /\ local' = [NoLocal EXCEPT !.kind = "missing", !.gate = gate_name]
               /\ UNCHANGED net_value
          ELSE LET done == LocalRound(modules, net_value, result.map,
                                      target_gate(modules, gate_name),
                                      target_module_def(modules,
                                          target_gate(modules, gate_name).gate_type))
               IN  /\ local' = done.local
                   /\ net_value' = done.net_value
    /\ UNCHANGED <<pc, parser, loader, modules, input_values, all_nets, mode, max_level,
                   gate_depths, net_depths, round, mi, iteration, gi, progress_made, result,
                   prev, clean, runs, gate, output_values>>


\* a half adder of two primitives with named connections
HalfAdderText ==
    " module half_adder(input a, input b, output sum, output cout);"
        \o " xor X1(.a(a), .b(b), .y(sum)); and A1(.a(a), .b(b), .y(cout)); endmodule"

MuxText ==
    " module Mux(input a, input b, input s, output y); wire t;"
        \o " and A1(.a(a), .b(s), .y(t)); or O1(.a(t), .b(b), .y(y)); endmodule"

InvText == " module inv(input i, output o); not N1(.a(i), .y(o)); endmodule"

\* the designs drilled into: an instance with named and with positional
\* connections, with and without a definition of its type
LocalDesigns ==
    {"module top(input a, input b, output s, output c);"
        \o " half_adder U1(.a(a), .b(b), .sum(s), .cout(c)); endmodule" \o HalfAdderText,
     "module top(input a, input b, output s, output c);"
        \o " HalfAdder U1(.a(a), .b(b), .sum(s), .cout(c)); endmodule" \o HalfAdderText,
     "module top(input a, input b, output s, output c);"
        \o " half_adder U1(a, b, s, c); endmodule" \o HalfAdderText,
     "module top(input a, input b, input w, output y);"
        \o " Mux U1(.a(a), .b(b), .s(w), .y(y)); endmodule" \o MuxText,
     "module top(input a, output y); cell U1(.a(a), .y(y)); endmodule",
     "module top(input a, output y); wire w; inv U1(.i(a), .o(w));"
        \o " not G1(.a(w), .y(y)); endmodule" \o InvText,
     "module top(input a, input b, input w, output s, output c);"
        \o " full_adder U1(.a(a), .b(b), .cin(w), .sum(s), .cout(c)); endmodule",
     "module top(input a, input b, input w, output s, output c);"
        \o " full_adder U1(.cout(c), .sum(s), .cin(w), .b(b), .a(a)); endmodule",
     "module top(input a, input b, output s, output c);"
        \o " hs U1(.b(b), .a(a), .bout(c), .diff(s)); endmodule"}

InitLocal ==
    /\ pc = "idle"
    /\ verilog_code \in LocalDesigns
    /\ modules \in _extract_modules_from_code(verilog_code)
    /\ parser_modules = modules
    /\ input_file = NoFile
    /\ rejected = 0
    /\ local = NoLocal
    /\ net_value = UnknownNetObjects(modules)
    /\ input_values \in [TopInputs(modules) -> {ZERO, ONE}]
    /\ all_nets = EmptyMap
    /\ mode = "none"
    /\ max_level = 0
    /\ gate_depths = EmptyMap
    /\ net_depths = EmptyMap
    /\ round = 0
    /\ mi = 0
    /\ iteration = 1
    /\ gi = 1
    /\ progress_made = FALSE
    /\ result = NoResult
    /\ prev = NoResult
    /\ clean = TRUE
    /\ runs = 0
    /\ gate = NoGate
    /\ output_values = <<>>

NextLocal ==
    \/ MainSimulation
    \/ LocalGateSimulation

SpecLocal == InitLocal /\ [][NextLocal]_vars


(***************************************************************************)
(* Properties of the hierarchical drill-down                               *)
(***************************************************************************)
\* a name without its underscores, in lower case
Squash(name) == lower(Remove(name, {"_"}))

\* the instances of the top module that carry the name of the gate drilled
\* into
DrilledInstances == {m \in SingleInstances : m.groups[2] = local.gate}

\* the modules whose name is the type the instance was written with, or a
\* case variant of it
DefinitionsOf(module_type) ==
    {k \in 1..Len(modules) : Squash(modules[k].name) = Squash(module_type)}

\* the values given to the isolated run are those of the nets connected to
\* the ports the definition d declares input, and only those
ProjectsInputs(g, d) ==
    /\ \A p \in DOMAIN g.port_map :
          (p \in DOMAIN d.ports /\ d.ports[p] = "input") =>
             /\ p \in DOMAIN local.inputs
             /\ local.inputs[p] = (IF g.port_map[p] \in DOMAIN result.map
                                   THEN result.map[g.port_map[p]] ELSE ZERO)
    /\ \A p \in DOMAIN local.inputs :
          p \in DOMAIN g.port_map /\ p \in DOMAIN d.ports /\ d.ports[p] = "input"

Drilled == pc = "simulated" /\ local.kind \in {"sub", "primitive"}

\* C25: the drill-down of an instance runs the isolated simulation of the
\* sub-circuit iff a Module of the instance's type is among the modules and
\* the instance has a named port map, otherwise the fallback; the isolated
\* run is given the enclosing value of the connected net for every port
\* the definition declares input, and for no other port
C25_DrillDown ==
    Drilled =>
        \A m \in DrilledInstances :
           /\ local.kind = "sub" <=>
                 (/\ DefinitionsOf(m.groups[1]) # {}
                  /\ target_gate(modules, local.gate).port_map # EmptyMap)
           /\ local.kind = "sub" =>
                 \E k \in DefinitionsOf(m.groups[1]) :
                    /\ modules[k].name = local.module
                    /\ ProjectsInputs(target_gate(modules, local.gate), modules[k])

\* what the drill-down does: the definition is looked up by the gate type
\* tag, under the tag itself or, for fa, ha, fs and hs, under the two
\* written forms of the name
C25_DrillDownByTag ==
    Drilled =>
        \A m \in DrilledInstances :
           LET tag == target_gate(modules, local.gate).gate_type
               named == {k \in 1..Len(modules) : modules[k].name \in DefinitionNames(tag)}
           IN  /\ local.kind = "sub" <=>
                     (/\ named # {}
                      /\ target_gate(modules, local.gate).port_map # EmptyMap)
               /\ local.kind = "sub" =>
                     \E k \in named :
                        /\ modules[k].name = local.module
                        /\ ProjectsInputs(target_gate(modules, local.gate), modules[k])

\* C25 witness: the instance U1 of Mux, written with named connections and
\* with the module Mux among the modules, was shown by the fallback
C25_Witness ==
    /\ Drilled
    /\ local.gate = "U1"
    /\ local.kind = "primitive"
    /\ \E m \in DrilledInstances : m.groups[1] = "Mux"
    /\ \E k \in 1..Len(modules) : modules[k].name = "Mux"
    /\ target_gate(modules, "U1").port_map # EmptyMap

\* the half adder instance was simulated on its own with the values of the
\* nets a and b, and nothing for sum and cout
C25_SubCircuit ==
    /\ Drilled
    /\ local.gate = "U1"
    /\ local.kind = "sub"
    /\ local.module = "half_adder"
    /\ \E m \in DrilledInstances : m.groups[1] = "HalfAdder"
    /\ local.inputs = [a |-> ONE, b |-> ZERO]
    /\ result.map["a"] = ONE /\ result.map["b"] = ZERO

\* the positional instance of a defined half adder was shown by the fallback
C25_Positional ==
    /\ Drilled
    /\ local.gate = "U1"
    /\ local.kind = "primitive"
    /\ \E k \in 1..Len(modules) : modules[k].name = "half_adder"
    /\ target_gate(modules, "U1").port_map = EmptyMap


(***************************************************************************)
(* Properties of the nets of several modules                               *)
(***************************************************************************)
\* the names module k uses for its nets: its ports, its declared wires and
\* the pins of its gates
NetsOf(ms, k) ==
    DOMAIN ms[k].ports \cup ms[k].nets
        \cup UNION {Range(ms[k].gates[i].inputs) \cup Range(ms[k].gates[i].outputs) :
                       i \in 1..Len(ms[k].gates)}

\* the module of the gate the running pass stands at
CurrentModule ==
    IF mode = "full" THEN mi
    ELSE CHOOSE m \in 1..Len(modules) :
            /\ gi > Len(FlatGates(SubSeq(modules, 1, m - 1)))
            /\ gi <= Len(FlatGates(SubSeq(modules, 1, m)))

\* the map a full simulation of the top module alone returns
TopAlone == simulate(<<modules[1]>>, <<UnknownNetObjects(modules)[1]>>, input_values)

\* C26: a gate recomputation changes no net that another module names, and
\* the value a full simulation from unknown nets returns for a net of the
\* top module is the value the top module simulated alone gives it
C26_ModulesApart ==
    /\ [][pc = "run" =>
             \A n \in DOMAIN all_nets :
                all_nets'[n] # all_nets[n] =>
                   \A k \in 1..Len(modules) : k # CurrentModule => n \notin NetsOf(modules, k)]_vars
    /\ []((pc = "idle" /\ result.mode = "full" /\ result.clean) =>
             \A n \in NetsOf(modules, 1) \cap DOMAIN result.map :
                result.map[n] = TopAlone[n])

\* C26 witness: the xor of the library half adder is about to write ONE to
\* the net sum, which the and gate of the top module has set to ZERO
C26_Witness ==
    /\ pc = "run"
    /\ modules = NetShared
    /\ CurrentModule = 2
    /\ CurrentGate.name = "X1"
    /\ result = NoResult
    /\ all_nets["sum"] = ZERO
    /\ _simulate_gate(CurrentGate, all_nets) = <<ONE>>

\* the returned value of the top net sum is the library's xor, not the top
\* module's and
C26_TopValueFromLibrary ==
    /\ pc = "idle"
    /\ modules = NetShared
    /\ result.mode = "full" /\ result.clean
    /\ input_values # EmptyMap
    /\ input_values["a"] = ONE /\ input_values["b"] = ZERO
    /\ result.map["sum"] = ONE
    /\ TopAlone["sum"] = ZERO


(***************************************************************************)
(* Properties of the arithmetic instances with named connections           *)
(***************************************************************************)
\* ONE for 1, ZERO for 0
Level(n) == IF n = 1 THEN ONE ELSE ZERO

\* the value the map gives to the net connected to the port
AtPort(g, port, map) == map[g.port_map[port]]

\* the gates of the top module of one of the four arithmetic types whose
\* named connections cover the ports
Arithmetic(gate_type, ports) ==
    {i \in 1..Len(modules[1].gates) :
        /\ modules[1].gates[i].gate_type = gate_type
        /\ ports \subseteq DOMAIN modules[1].gates[i].port_map}

\* a + b + cin of an adder instance, with cin = 0 for a half adder
Added(g, map) ==
    Bit(AtPort(g, "a", map)) + Bit(AtPort(g, "b", map))
        + (IF "cin" \in DOMAIN g.port_map THEN Bit(AtPort(g, "cin", map)) ELSE 0)

\* a - b - bin of a subtractor instance, with bin = 0 for a half subtractor
Subtracted(g, map) ==
    Bit(AtPort(g, "a", map)) - Bit(AtPort(g, "b", map))
        - (IF "bin" \in DOMAIN g.port_map THEN Bit(AtPort(g, "bin", map)) ELSE 0)

AdderHolds(g, map) ==
    /\ AtPort(g, "sum", map) = Level(Added(g, map) % 2)
    /\ AtPort(g, "cout", map) = Level(Added(g, map) \div 2)

SubtractorHolds(g, map) ==
    /\ AtPort(g, "diff", map) = Level(Subtracted(g, map) % 2)
    /\ AtPort(g, "bout", map) = Level(IF Subtracted(g, map) < 0 THEN 1 ELSE 0)

\* C27: after the main simulation the net at port sum (diff) of an adder
\* (subtractor) instance with named connections holds the exclusive or of the
\* nets at its input ports and the net at cout (bout) holds the carry
\* (borrow), in whatever order the connections are written
C27_SumAndCarryByPort ==
    (pc = "simulated" /\ result.mode = "full") =>
       /\ \A i \in Arithmetic("fa", {"a", "b", "cin", "sum", "cout"}) :
             AdderHolds(modules[1].gates[i], result.map)
       /\ \A i \in Arithmetic("ha", {"a", "b", "sum", "cout"}) :
             AdderHolds(modules[1].gates[i], result.map)
       /\ \A i \in Arithmetic("fs", {"a", "b", "bin", "diff", "bout"}) :
             SubtractorHolds(modules[1].gates[i], result.map)
       /\ \A i \in Arithmetic("hs", {"a", "b", "diff", "bout"}) :
             SubtractorHolds(modules[1].gates[i], result.map)

\* C27 witness: a full adder written .sum(s), .cout(c) with a = 1, b = 0,
\* cin = 0 leaves the carry 0 on s and the sum 1 on c
C27_Witness ==
    /\ pc = "simulated" /\ result.mode = "full"
    /\ \E i \in Arithmetic("fa", {"a", "b", "cin", "sum", "cout"}) :
          LET g == modules[1].gates[i]
          IN  /\ g.outputs = <<g.port_map["sum"], g.port_map["cout"]>>
              /\ AtPort(g, "a", result.map) = ONE
              /\ AtPort(g, "b", result.map) = ZERO
              /\ AtPort(g, "cin", result.map) = ZERO
              /\ AtPort(g, "sum", result.map) = ZERO
              /\ AtPort(g, "cout", result.map) = ONE

\* the instances written with the carry (borrow) before the sum (diff) and,
\* for a subtractor, a before b: the order the evaluators take
InEvaluatorOrder(g) ==
    \/ /\ g.gate_type = "fa"
       /\ g.outputs = <<g.port_map["cout"], g.port_map["sum"]>>
    \/ /\ g.gate_type = "ha"
       /\ g.outputs = <<g.port_map["cout"], g.port_map["sum"]>>
    \/ /\ g.gate_type = "hs"
       /\ g.outputs = <<g.port_map["bout"], g.port_map["diff"]>>
       /\ g.inputs = <<g.port_map["a"], g.port_map["b"]>>

\* what holds: the full adder written .cout(c), .sum(s) is right
C27_RightInEvaluatorOrder ==
    (pc = "simulated" /\ result.mode = "full") =>
       \A i \in Arithmetic("fa", {"a", "b", "cin", "sum", "cout"}) :
          InEvaluatorOrder(modules[1].gates[i]) =>
             AdderHolds(modules[1].gates[i], result.map)

\* the full adder written .cout(c), .sum(s) has been simulated with a carry
C27_CarryFirst ==
    /\ pc = "simulated" /\ result.mode = "full"
    /\ \E i \in Arithmetic("fa", {"a", "b", "cin", "sum", "cout"}) :
          /\ InEvaluatorOrder(modules[1].gates[i])
          /\ AtPort(modules[1].gates[i], "cout", result.map) = ONE
          /\ AtPort(modules[1].gates[i], "sum", result.map) = ZERO


\* a half subtractor written .b(b), .a(a), .bout(c), .diff(s) with a = 1,
\* b = 0 shows a borrow: the evaluator takes the first written input as a
C27_SubtractorInputsSwapped ==
    /\ pc = "simulated" /\ result.mode = "full"
    /\ \E i \in Arithmetic("hs", {"a", "b", "diff", "bout"}) :
          LET g == modules[1].gates[i]
          IN  /\ g.inputs = <<g.port_map["b"], g.port_map["a"]>>
              /\ g.outputs = <<g.port_map["bout"], g.port_map["diff"]>>
              /\ AtPort(g, "a", result.map) = ONE
              /\ AtPort(g, "b", result.map) = ZERO
              /\ AtPort(g, "bout", result.map) = ONE


(***************************************************************************)
(* Properties of the map a full simulation returns                         *)
(***************************************************************************)
\* the number of inputs a gate of the type takes: at least this many for
\* the gates of any width, exactly this many for the others
Arity ==
    [and |-> 2, or |-> 2, nand |-> 2, nor |-> 2, xor |-> 2, xnor |-> 2, not |-> 1,
     ha |-> 2, hs |-> 2, fa |-> 3, fs |-> 3, mux2 |-> 3, mux4 |-> 6]

HasItsInputs(g) ==
    /\ g.gate_type \in DOMAIN Arity
    /\ IF g.gate_type \in {"and", "or", "nand", "nor", "xor", "xnor"}
       THEN Len(g.inputs) >= Arity[g.gate_type]
       ELSE Len(g.inputs) = Arity[g.gate_type]

\* the primary inputs assigned 0 or 1
AssignedInputs == {n \in DOMAIN input_values : input_values[n] \in {ZERO, ONE}}

\* the nets settled after n sweeps over the gates in the best order: the
\* assigned inputs and the outputs of the gates whose inputs are settled
RECURSIVE SettledAfter(_, _, _)
SettledAfter(gs, known, n) ==
    IF n = 0 THEN known
    ELSE LET more == known \cup UNION {Range(gs[i].outputs) :
                                          i \in {j \in 1..Len(gs) :
                                                    Range(gs[j].inputs) \subseteq known}}
         IN  IF more = known THEN known ELSE SettledAfter(gs, more, n - 1)

\* the gates that read an output of one of the gates of S
Readers(gs, S) ==
    {j \in 1..Len(gs) :
        \E i \in S : Range(gs[i].outputs) \cap Range(gs[j].inputs) # {}}

\* the gates reached from those of S in at most n steps
RECURSIVE Downstream(_, _, _)
Downstream(gs, S, n) ==
    IF n = 0 \/ Readers(gs, S) \subseteq S THEN S
    ELSE Downstream(gs, S \cup Readers(gs, S), n - 1)

\* no gate reads, directly or through other gates, what it drives
Acyclic(gs) ==
    \A i \in 1..Len(gs) : i \notin Downstream(gs, Readers(gs, {i}), Len(gs))

\* every gate input is an assigned primary input or a driven net
InputsGiven(gs) ==
    \A i \in 1..Len(gs) :
        Range(gs[i].inputs) \subseteq
            AssignedInputs \cup UNION {Range(gs[j].outputs) : j \in 1..Len(gs)}

\* no gate is deeper than the passes of one convergence
WithinDepth(gs, budget) ==
    \A i \in 1..Len(gs) :
        Range(gs[i].outputs) \subseteq SettledAfter(gs, AssignedInputs, budget)

\* at most one gate drives a net
OneDriver(gs) ==
    \A i, j \in 1..Len(gs) :
        i # j => Range(gs[i].outputs) \cap Range(gs[j].outputs) = {}

WellFormed(ms) ==
    /\ OneDriver(FlatGates(ms))
    /\ \A i \in 1..Len(FlatGates(ms)) : HasItsInputs(FlatGates(ms)[i])
    /\ Acyclic(FlatGates(ms))
    /\ InputsGiven(FlatGates(ms))
    /\ WithinDepth(FlatGates(ms), ModuleMaxIterations)

\* every output net holds what the gate function gives on the values of the
\* input nets in the same map
IsFixpoint(gs, map) ==
    \A i \in 1..Len(gs) :
        \A k \in 1..Len(gs[i].outputs) :
            k <= Len(_simulate_gate(gs[i], map)) =>
                map[gs[i].outputs[k]] = _simulate_gate(gs[i], map)[k]

ReturnedClean == pc = "idle" /\ result.mode = "full" /\ result.clean

\* C28: the map a full simulation from unknown nets returns for a well
\* formed acyclic netlist within the pass budget is a fixpoint of the gate
\* functions, in whatever order the gates are listed
C28_ReturnedMapIsFixpoint ==
    (ReturnedClean /\ WellFormed(modules)) => IsFixpoint(FlatGates(modules), result.map)

\* C28 witness: the ten inverters of NetAlternate with a = 1 are back from
\* a full simulation with y at ZERO under n9 at ZERO
C28_Witness ==
    /\ ReturnedClean
    /\ WellFormed(modules)
    /\ modules = NetAlternate
    /\ result.map["n9"] = ZERO
    /\ result.map["y"] = ZERO

\* what holds: the map is a fixpoint when the gates are those of one module
C28_FixpointOneModule ==
    (ReturnedClean /\ WellFormed(modules)
        /\ \E m \in 1..Len(modules) : FlatGates(modules) = modules[m].gates)
       => IsFixpoint(FlatGates(modules), result.map)

\* the chain listed output side first is back from a full simulation with
\* both inputs at ONE
C28_ReversedChain ==
    /\ ReturnedClean
    /\ WellFormed(modules)
    /\ modules = NetChainRev
    /\ result.map["w"] = ONE
    /\ result.map["y"] = ZERO


(***************************************************************************)
(* Properties of the gate functions under more information                 *)
(***************************************************************************)
\* the gate functions of the engine
GateFunctions ==
    {"and", "or", "not", "nand", "nor", "xor", "xnor", "fa", "ha", "fs", "hs",
     "mux2", "mux4"}

\* the input lists got from the given one by writing ZERO or ONE over some
\* of its X entries
Refinements(values) ==
    LET unknown == {i \in 1..Len(values) : values[i] = X}
    IN  {[i \in 1..Len(values) |-> IF i \in unknown THEN f[i] ELSE values[i]] :
            f \in [unknown -> LogicValue]}

\* the concrete values of the first list stand at the same place in the
\* second
KeepsConcrete(before, after) ==
    \A k \in 1..Len(before) :
        before[k] \in {ZERO, ONE} => (k <= Len(after) /\ after[k] = before[k])

\* C29: an output of a gate function that is ZERO or ONE on an input list
\* stays what it is when X inputs of the list are replaced by ZERO or ONE
C29_GateFunctionsMonotone ==
    (pc = "evaluated" /\ gate.gate_type \in GateFunctions) =>
        \A refined \in Refinements(GivenInputs) :
            KeepsConcrete(output_values,
                          GateFunction(gate.gate_type, refined, Len(gate.outputs)))

\* C29 witness: a full adder with a and b at ONE and the carry input at X
\* was evaluated to a carry of ONE and an unknown sum
C29_Witness ==
    /\ pc = "evaluated"
    /\ gate.gate_type = "fa"
    /\ GivenInputs = <<ONE, ONE, X>>
    /\ output_values = <<ONE, X>>
    /\ Cardinality(Refinements(GivenInputs)) = 3

\* an AND gate with a ZERO and an X input was evaluated to ZERO
C29_ZeroDominates ==
    /\ pc = "evaluated"
    /\ gate.gate_type = "and"
    /\ GivenInputs = <<X, ZERO>>
    /\ output_values = <<ZERO>>

\* a full subtractor with an unknown borrow input gave a concrete borrow
C29_BorrowKnown ==
    /\ pc = "evaluated"
    /\ gate.gate_type = "fs"
    /\ Len(gate.inputs) = 3
    /\ GivenInputs[3] = X
    /\ output_values[1] \in {ZERO, ONE}


(***************************************************************************)
(* Properties of repeated calls of parse_file                              *)
(***************************************************************************)
\* a call of parse_file has returned
Called == runs' = runs + 1

\* C30: a call of parse_file returns the modules of the file it was given
\* and no others, whatever calls were made before on the same parser; a
\* call that cannot read its file returns the empty list and leaves the
\* parser as it was
C30_ReturnsOwnModules ==
    [][Called =>
          \/ modules' \in _extract_modules_from_code(verilog_code')
          \/ modules' = <<>> /\ UNCHANGED <<verilog_code, parser_modules>>]_vars

\* C30 witness: the second call, given the library file, has returned the
\* module of the design file in front of the module of the library
C30_Witness ==
    /\ runs = 2
    /\ verilog_code = Library
    /\ Len(modules) = 2
    /\ modules[1].name = "m"
    /\ modules[2].name = "lib"

\* what a call does return: the modules of every file parsed so far
Accumulates ==
    Called =>
       \/ /\ modules' = parser_modules'
          /\ \E found \in _extract_modules_from_code(verilog_code') :
                parser_modules' = parser_modules \o found
       \/ modules' = <<>> /\ UNCHANGED <<verilog_code, parser_modules>>

C30_ReturnsAllSoFar == [][Accumulates]_vars

\* a call failed and the next one returned the modules of its own file
C30_AfterFailedRead ==
    /\ runs = 2
    /\ verilog_code = Library
    /\ Len(modules) = 1
    /\ modules[1].name = "lib"

====
